---- MODULE Spec2Model ----
(***************************************************************************)
(* The service worker of the Police 288 landing page (src/sw.js): the      *)
(* install / activate lifecycle, the fetch router with its four caching    *)
(* strategies, and the cache-management commands, over the browser's       *)
(* CacheStorage.                                                           *)
(*                                                                         *)
(* Strings whose characters the code inspects (includes, replace,          *)
(* startsWith, the extension regular expressions) are sequences of         *)
(* one-character strings; Chars gives the characters of every string the   *)
(* model uses.                                                             *)
(*                                                                         *)
(* The second fetch listener (sw.js 246-267) only times the request and    *)
(* logs; it touches no cache and calls no respondWith, and is left out.    *)
(*                                                                         *)
(* The page script (src/script.js, and its fuller version in               *)
(* src/unnamed/part_000) is modelled beside the worker, with which it      *)
(* shares no state: the order submission (sendToMakeWebhook), the          *)
(* social-proof notification ticker with its timers, and the main slider   *)
(* with its autoplay intervals and gestures.                               *)
(***************************************************************************)
EXTENDS Integers, Sequences, FiniteSets, Bags, TLC

\* ------------------------------------------------------------------ bounds
\* Fetch events dispatched to the worker in one run.
MaxReq == 2
\* Control messages posted to the worker in one run.
MaxCmd == 1
\* Submissions of the order form in one run.
MaxSubmit == 2

\* ----------------------------------------------------------------- strings
Chars(s) ==
  CASE
       s = "/" ->
       <<"/">>
    [] s = "/index.html" ->
       <<"/", "i", "n", "d", "e", "x", ".", "h", "t", "m", "l">>
    [] s = "/styles.css?v=2.1.0&t=1734705600" ->
       <<"/", "s", "t", "y", "l", "e", "s", ".", "c", "s", "s", "?", "v", "=", "2", ".", "1",
         ".", "0", "&", "t", "=", "1", "7", "3", "4", "7", "0", "5", "6", "0", "0">>
    [] s = "/mobile-reviews.css?v=2.1.0&t=1734705600" ->
       <<"/", "m", "o", "b", "i", "l", "e", "-", "r", "e", "v", "i", "e", "w", "s", ".", "c",
         "s", "s", "?", "v", "=", "2", ".", "1", ".", "0", "&", "t", "=", "1", "7", "3", "4",
         "7", "0", "5", "6", "0", "0">>
    [] s = "/script.js?v=2.1.0&t=1734705600" ->
       <<"/", "s", "c", "r", "i", "p", "t", ".", "j", "s", "?", "v", "=", "2", ".", "1", ".",
         "0", "&", "t", "=", "1", "7", "3", "4", "7", "0", "5", "6", "0", "0">>
    [] s = "/public/images/288-flashlight-main-image.jpg" ->
       <<"/", "p", "u", "b", "l", "i", "c", "/", "i", "m", "a", "g", "e", "s", "/", "2", "8",
         "8", "-", "f", "l", "a", "s", "h", "l", "i", "g", "h", "t", "-", "m", "a", "i", "n",
         "-", "i", "m", "a", "g", "e", ".", "j", "p", "g">>
    [] s = "/confirmation.html" ->
       <<"/", "c", "o", "n", "f", "i", "r", "m", "a", "t", "i", "o", "n", ".", "h", "t", "m",
         "l">>
    [] s = "https://fonts.googleapis.com/css2?family=Cairo:wght@400;600;700&display=swap" ->
       <<"h", "t", "t", "p", "s", ":", "/", "/", "f", "o", "n", "t", "s", ".", "g", "o", "o",
         "g", "l", "e", "a", "p", "i", "s", ".", "c", "o", "m", "/", "c", "s", "s", "2", "?",
         "f", "a", "m", "i", "l", "y", "=", "C", "a", "i", "r", "o", ":", "w", "g", "h", "t",
         "@", "4", "0", "0", ";", "6", "0", "0", ";", "7", "0", "0", "&", "d", "i", "s", "p",
         "l", "a", "y", "=", "s", "w", "a", "p">>
    [] s = "https://fonts.gstatic.com/s/cairo/v28/SLXgc1nY6HkvalYAIYM4_z6rC7TODm6H7xaFU6jd_E0w0tKLUdwqjZjL.woff2" ->
       <<"h", "t", "t", "p", "s", ":", "/", "/", "f", "o", "n", "t", "s", ".", "g", "s", "t",
         "a", "t", "i", "c", ".", "c", "o", "m", "/", "s", "/", "c", "a", "i", "r", "o", "/",
         "v", "2", "8", "/", "S", "L", "X", "g", "c", "1", "n", "Y", "6", "H", "k", "v", "a",
         "l", "Y", "A", "I", "Y", "M", "4", "_", "z", "6", "r", "C", "7", "T", "O", "D", "m",
         "6", "H", "7", "x", "a", "F", "U", "6", "j", "d", "_", "E", "0", "w", "0", "t", "K",
         "L", "U", "d", "w", "q", "j", "Z", "j", "L", ".", "w", "o", "f", "f", "2">>
    [] s = "https://288-flashlight.vercel.app/" ->
       <<"h", "t", "t", "p", "s", ":", "/", "/", "2", "8", "8", "-", "f", "l", "a", "s", "h",
         "l", "i", "g", "h", "t", ".", "v", "e", "r", "c", "e", "l", ".", "a", "p", "p", "/">>
    [] s = "https://288-flashlight.vercel.app/index.html" ->
       <<"h", "t", "t", "p", "s", ":", "/", "/", "2", "8", "8", "-", "f", "l", "a", "s", "h",
         "l", "i", "g", "h", "t", ".", "v", "e", "r", "c", "e", "l", ".", "a", "p", "p", "/",
         "i", "n", "d", "e", "x", ".", "h", "t", "m", "l">>
    [] s = "https://288-flashlight.vercel.app/styles.css?v=2.1.0&t=1734705600" ->
       <<"h", "t", "t", "p", "s", ":", "/", "/", "2", "8", "8", "-", "f", "l", "a", "s", "h",
         "l", "i", "g", "h", "t", ".", "v", "e", "r", "c", "e", "l", ".", "a", "p", "p", "/",
         "s", "t", "y", "l", "e", "s", ".", "c", "s", "s", "?", "v", "=", "2", ".", "1", ".",
         "0", "&", "t", "=", "1", "7", "3", "4", "7", "0", "5", "6", "0", "0">>
    [] s = "https://288-flashlight.vercel.app/mobile-reviews.css?v=2.1.0&t=1734705600" ->
       <<"h", "t", "t", "p", "s", ":", "/", "/", "2", "8", "8", "-", "f", "l", "a", "s", "h",
         "l", "i", "g", "h", "t", ".", "v", "e", "r", "c", "e", "l", ".", "a", "p", "p", "/",
         "m", "o", "b", "i", "l", "e", "-", "r", "e", "v", "i", "e", "w", "s", ".", "c", "s",
         "s", "?", "v", "=", "2", ".", "1", ".", "0", "&", "t", "=", "1", "7", "3", "4", "7",
         "0", "5", "6", "0", "0">>
    [] s = "https://288-flashlight.vercel.app/script.js?v=2.1.0&t=1734705600" ->
       <<"h", "t", "t", "p", "s", ":", "/", "/", "2", "8", "8", "-", "f", "l", "a", "s", "h",
         "l", "i", "g", "h", "t", ".", "v", "e", "r", "c", "e", "l", ".", "a", "p", "p", "/",
         "s", "c", "r", "i", "p", "t", ".", "j", "s", "?", "v", "=", "2", ".", "1", ".", "0",
         "&", "t", "=", "1", "7", "3", "4", "7", "0", "5", "6", "0", "0">>
    [] s = "https://288-flashlight.vercel.app/public/images/288-flashlight-main-image.jpg" ->
       <<"h", "t", "t", "p", "s", ":", "/", "/", "2", "8", "8", "-", "f", "l", "a", "s", "h",
         "l", "i", "g", "h", "t", ".", "v", "e", "r", "c", "e", "l", ".", "a", "p", "p", "/",
         "p", "u", "b", "l", "i", "c", "/", "i", "m", "a", "g", "e", "s", "/", "2", "8", "8",
         "-", "f", "l", "a", "s", "h", "l", "i", "g", "h", "t", "-", "m", "a", "i", "n", "-",
         "i", "m", "a", "g", "e", ".", "j", "p", "g">>
    [] s = "https://288-flashlight.vercel.app/confirmation.html" ->
       <<"h", "t", "t", "p", "s", ":", "/", "/", "2", "8", "8", "-", "f", "l", "a", "s", "h",
         "l", "i", "g", "h", "t", ".", "v", "e", "r", "c", "e", "l", ".", "a", "p", "p", "/",
         "c", "o", "n", "f", "i", "r", "m", "a", "t", "i", "o", "n", ".", "h", "t", "m", "l">>
    [] s = "https://288-flashlight.vercel.app/public/images/gallery.PNG" ->
       <<"h", "t", "t", "p", "s", ":", "/", "/", "2", "8", "8", "-", "f", "l", "a", "s", "h",
         "l", "i", "g", "h", "t", ".", "v", "e", "r", "c", "e", "l", ".", "a", "p", "p", "/",
         "p", "u", "b", "l", "i", "c", "/", "i", "m", "a", "g", "e", "s", "/", "g", "a", "l",
         "l", "e", "r", "y", ".", "P", "N", "G">>
    [] s = "https://288-flashlight.vercel.app/theme.css" ->
       <<"h", "t", "t", "p", "s", ":", "/", "/", "2", "8", "8", "-", "f", "l", "a", "s", "h",
         "l", "i", "g", "h", "t", ".", "v", "e", "r", "c", "e", "l", ".", "a", "p", "p", "/",
         "t", "h", "e", "m", "e", ".", "c", "s", "s">>
    [] s = "https://288-flashlight.vercel.app/order" ->
       <<"h", "t", "t", "p", "s", ":", "/", "/", "2", "8", "8", "-", "f", "l", "a", "s", "h",
         "l", "i", "g", "h", "t", ".", "v", "e", "r", "c", "e", "l", ".", "a", "p", "p", "/",
         "o", "r", "d", "e", "r">>
    [] s = "https://hook.eu2.make.com/jbw8c58qrbe1dp1djwdiac6elyf3srym" ->
       <<"h", "t", "t", "p", "s", ":", "/", "/", "h", "o", "o", "k", ".", "e", "u", "2", ".",
         "m", "a", "k", "e", ".", "c", "o", "m", "/", "j", "b", "w", "8", "c", "5", "8", "q",
         "r", "b", "e", "1", "d", "p", "1", "d", "j", "w", "d", "i", "a", "c", "6", "e", "l",
         "y", "f", "3", "s", "r", "y", "m">>
    [] s = "chrome-extension://abcdef/inject.js" ->
       <<"c", "h", "r", "o", "m", "e", "-", "e", "x", "t", "e", "n", "s", "i", "o", "n", ":",
         "/", "/", "a", "b", "c", "d", "e", "f", "/", "i", "n", "j", "e", "c", "t", ".", "j",
         "s">>
    [] s = "police288-static-v2.1.0" ->
       <<"p", "o", "l", "i", "c", "e", "2", "8", "8", "-", "s", "t", "a", "t", "i", "c", "-",
         "v", "2", ".", "1", ".", "0">>
    [] s = "police288-dynamic-v2.1.0" ->
       <<"p", "o", "l", "i", "c", "e", "2", "8", "8", "-", "d", "y", "n", "a", "m", "i", "c",
         "-", "v", "2", ".", "1", ".", "0">>
    [] s = "police288-static-v2.0.0" ->
       <<"p", "o", "l", "i", "c", "e", "2", "8", "8", "-", "s", "t", "a", "t", "i", "c", "-",
         "v", "2", ".", "0", ".", "0">>
    [] s = "police288-dynamic-v2.0.0" ->
       <<"p", "o", "l", "i", "c", "e", "2", "8", "8", "-", "d", "y", "n", "a", "m", "i", "c",
         "-", "v", "2", ".", "0", ".", "0">>
    [] s = "workbox-precache-v2" ->
       <<"w", "o", "r", "k", "b", "o", "x", "-", "p", "r", "e", "c", "a", "c", "h", "e", "-",
         "v", "2">>
    [] s = "css" ->
       <<"c", "s", "s">>
    [] s = "js" ->
       <<"j", "s">>
    [] s = "woff2" ->
       <<"w", "o", "f", "f", "2">>
    [] s = "woff" ->
       <<"w", "o", "f", "f">>
    [] s = "ttf" ->
       <<"t", "t", "f">>
    [] s = "png" ->
       <<"p", "n", "g">>
    [] s = "jpg" ->
       <<"j", "p", "g">>
    [] s = "jpeg" ->
       <<"j", "p", "e", "g">>
    [] s = "gif" ->
       <<"g", "i", "f">>
    [] s = "webp" ->
       <<"w", "e", "b", "p">>
    [] s = "avif" ->
       <<"a", "v", "i", "f">>
    [] s = "svg" ->
       <<"s", "v", "g">>
    [] s = "ico" ->
       <<"i", "c", "o">>
    [] s = "make.com" ->
       <<"m", "a", "k", "e", ".", "c", "o", "m">>
    [] s = "analytics.tiktok.com" ->
       <<"a", "n", "a", "l", "y", "t", "i", "c", "s", ".", "t", "i", "k", "t", "o", "k", ".",
         "c", "o", "m">>
    [] s = "googleapis.com" ->
       <<"g", "o", "o", "g", "l", "e", "a", "p", "i", "s", ".", "c", "o", "m">>
    [] s = "http" ->
       <<"h", "t", "t", "p">>
    [] s = "police288-" ->
       <<"p", "o", "l", "i", "c", "e", "2", "8", "8", "-">>
    [] s = "https://288-flashlight.vercel.app" ->
       <<"h", "t", "t", "p", "s", ":", "/", "/", "2", "8", "8", "-", "f", "l", "a", "s", "h",
         "l", "i", "g", "h", "t", ".", "v", "e", "r", "c", "e", "l", ".", "a", "p", "p">>


Lower(c) ==
  CASE c = "A" -> "a" [] c = "B" -> "b" [] c = "C" -> "c" [] c = "D" -> "d"
    [] c = "E" -> "e" [] c = "F" -> "f" [] c = "G" -> "g" [] c = "H" -> "h"
    [] c = "I" -> "i" [] c = "J" -> "j" [] c = "K" -> "k" [] c = "L" -> "l"
    [] c = "M" -> "m" [] c = "N" -> "n" [] c = "O" -> "o" [] c = "P" -> "p"
    [] c = "Q" -> "q" [] c = "R" -> "r" [] c = "S" -> "s" [] c = "T" -> "t"
    [] c = "U" -> "u" [] c = "V" -> "v" [] c = "W" -> "w" [] c = "X" -> "x"
    [] c = "Y" -> "y" [] c = "Z" -> "z" [] OTHER -> c

\* String.prototype.includes
Includes(s, sub) ==
  \E i \in 0..(Len(s) - Len(sub)) : SubSeq(s, i + 1, i + Len(sub)) = sub

\* String.prototype.startsWith
StartsWith(s, pre) ==
  Len(pre) <= Len(s) /\ SubSeq(s, 1, Len(pre)) = pre

\* String.prototype.replace(pattern, replacement) with a string pattern: only
\* the first occurrence is replaced.
Replace(s, pat, rep) ==
  LET hits == {i \in 1..(Len(s) - Len(pat) + 1) : SubSeq(s, i, i + Len(pat) - 1) = pat}
  IN  IF hits = {} THEN s
      ELSE LET i == CHOOSE h \in hits : \A k \in hits : h <= k
           IN  SubSeq(s, 1, i - 1) \o rep \o SubSeq(s, i + Len(pat), Len(s))

\* /\.(e1|e2|...)$/i.test(s): s ends with a dot and one of the extensions,
\* letter case ignored.
TestExtension(s, exts) ==
  LET low == [i \in 1..Len(s) |-> Lower(s[i])]
  IN  \E e \in exts :
        LET suf == <<".">> \o Chars(e)
        IN  Len(suf) <= Len(low) /\ SubSeq(low, Len(low) - Len(suf) + 1, Len(low)) = suf

\* new URL(url).protocol: the scheme with its colon.
Protocol(s) ==
  LET colons == {i \in 1..Len(s) : s[i] = ":"}
  IN  IF colons = {} THEN <<>>
      ELSE SubSeq(s, 1, CHOOSE h \in colons : \A k \in colons : h <= k)

\* ------------------------------------------------------------- sw.js 4-19
CACHE_STATIC_NAME == "police288-static-v2.1.0"
CACHE_DYNAMIC_NAME == "police288-dynamic-v2.1.0"

STATIC_CACHE_URLS ==
  << "/",
     "/index.html",
     "/styles.css?v=2.1.0&t=1734705600",
     "/mobile-reviews.css?v=2.1.0&t=1734705600",
     "/script.js?v=2.1.0&t=1734705600",
     "/public/images/288-flashlight-main-image.jpg",
     "/confirmation.html",
     "https://fonts.googleapis.com/css2?family=Cairo:wght@400;600;700&display=swap",
     "https://fonts.gstatic.com/s/cairo/v28/SLXgc1nY6HkvalYAIYM4_z6rC7TODm6H7xaFU6jd_E0w0tKLUdwqjZjL.woff2" >>

\* The origin the worker is served from (the scope of its registration).
Origin == "https://288-flashlight.vercel.app"

\* URLs the page requests besides the manifest's.
PagePhoto == "https://288-flashlight.vercel.app/public/images/gallery.PNG"
PageTheme == "https://288-flashlight.vercel.app/theme.css"
PageOrder == "https://288-flashlight.vercel.app/order"
PageIndex == "https://288-flashlight.vercel.app/index.html"
Webhook == "https://hook.eu2.make.com/jbw8c58qrbe1dp1djwdiac6elyf3srym"
ExtensionScript == "chrome-extension://abcdef/inject.js"

\* Every absolute URL of the model.
AbsoluteURLs ==
  { "https://288-flashlight.vercel.app/",
    "https://288-flashlight.vercel.app/index.html",
    "https://288-flashlight.vercel.app/styles.css?v=2.1.0&t=1734705600",
    "https://288-flashlight.vercel.app/mobile-reviews.css?v=2.1.0&t=1734705600",
    "https://288-flashlight.vercel.app/script.js?v=2.1.0&t=1734705600",
    "https://288-flashlight.vercel.app/public/images/288-flashlight-main-image.jpg",
    "https://288-flashlight.vercel.app/confirmation.html",
    "https://fonts.googleapis.com/css2?family=Cairo:wght@400;600;700&display=swap",
    "https://fonts.gstatic.com/s/cairo/v28/SLXgc1nY6HkvalYAIYM4_z6rC7TODm6H7xaFU6jd_E0w0tKLUdwqjZjL.woff2",
    PagePhoto, PageTheme, PageOrder, Webhook, ExtensionScript }

\* new Request(url).url in the worker: a root-relative URL is resolved against
\* the worker's origin, an absolute URL is kept.
RequestURL(url) ==
  LET abs == IF StartsWith(Chars(url), <<"/">>) THEN Chars(Origin) \o Chars(url)
             ELSE Chars(url)
  IN  CHOOSE u \in AbsoluteURLs : Chars(u) = abs

\* The cache keys of the manifest, computed once.
ManifestKeys == {RequestURL(STATIC_CACHE_URLS[i]) : i \in DOMAIN STATIC_CACHE_URLS}

\* ---------------------------------------------------------- sw.js 96-113
StaticExtensions == {"css", "js", "woff2", "woff", "ttf"}
ImageExtensions == {"png", "jpg", "jpeg", "gif", "webp", "avif", "svg", "ico"}

isStaticAsset(url) ==
  \/ \E i \in DOMAIN STATIC_CACHE_URLS :
       Includes(Chars(url), Replace(Chars(STATIC_CACHE_URLS[i]), <<"/">>, <<>>))
  \/ TestExtension(Chars(url), StaticExtensions)

isImageRequest(url) == TestExtension(Chars(url), ImageExtensions)

isAPIRequest(url) ==
  \/ Includes(Chars(url), Chars("make.com"))
  \/ Includes(Chars(url), Chars("analytics.tiktok.com"))
  \/ Includes(Chars(url), Chars("googleapis.com"))

\* Mutant: the method test is forgotten.
Strategy_AnyMethod(method, url) ==
  IF ~StartsWith(Protocol(Chars(url)), Chars("http")) THEN "none"
  ELSE IF isStaticAsset(url) THEN "static"
  ELSE IF isImageRequest(url) THEN "image"
  ELSE IF isAPIRequest(url) THEN "api"
  ELSE "html"

\* The fetch listener's choice (sw.js 74-94): "none" when it returns without
\* calling respondWith.
Strategy(method, url) ==
  IF method # "GET" THEN "none"
  ELSE IF ~StartsWith(Protocol(Chars(url)), Chars("http")) THEN "none"
  ELSE IF isStaticAsset(url) THEN "static"
  ELSE IF isImageRequest(url) THEN "image"
  ELSE IF isAPIRequest(url) THEN "api"
  ELSE "html"

\* ------------------------------------------------------------------- state
OldStaticName == "police288-static-v2.0.0"
OldDynamicName == "police288-dynamic-v2.0.0"
ForeignName == "workbox-precache-v2"
CacheNames ==
  {CACHE_STATIC_NAME, CACHE_DYNAMIC_NAME, OldStaticName, OldDynamicName, ForeignName}

Requests == 1..MaxReq
Commands == 1..MaxCmd

\* What the page asks for: GET of each URL, and the order form's POST.
FetchInputs ==
  {<<"GET", u>> : u \in {PageIndex, PagePhoto, PageTheme, PageOrder, Webhook, ExtensionScript}}
    \cup {<<"POST", Webhook>>}

\* The fetch listener's choice for every input, computed once.
StrategyOf == [i \in FetchInputs |-> Strategy(i[1], i[2])]

NoResponse == [kind |-> "none", body |-> <<"none", 0>>, ok |-> FALSE]
\* A handler that resolved with undefined: respondWith fails the request.
Undefined == [kind |-> "undefined", body |-> <<"none", 0>>, ok |-> FALSE]
\* A handler that threw: respondWith fails the request.
Rejected == [kind |-> "rejected", body |-> <<"none", 0>>, ok |-> FALSE]
\* sw.js 162-168
Placeholder == [kind |-> "placeholder", body |-> <<"svg", 0>>, ok |-> TRUE]
Response(body, ok) == [kind |-> "response", body |-> body, ok |-> ok]

IdleReq ==
  [url |-> "", method |-> "", strategy |-> "none", pc |-> "idle",
   lookup |-> "none",     \* the handler's first caches.match: "hit" or "miss"
   net |-> "none",        \* its fetch: "ok", "notok" (a status outside 200-299), "throw"
   result |-> NoResponse, \* what the handler gave respondWith
   put |-> "none",        \* its cache.put: "pending", "orphan", "done", "lost", "failed"
   putName |-> "",
   fault |-> "none"]      \* the cache operation of the handler that threw first

\* One call chain of sendToMakeWebhook (script.js 554-592).
Submissions == 1..MaxSubmit
IdleHook ==
  [pc |-> "idle",       \* "fetching", "reading", "caught", "waiting", "done"
   retryCount |-> 0,    \* the retryCount argument of the running call
   attempts |-> 0,      \* the fetch calls made so far
   elapsed |-> 0,       \* milliseconds since the running fetch started
   waited |-> 0,        \* milliseconds of the wait before a retry
   errorName |-> "",    \* error.name in the catch block
   result |-> "none",   \* "success" or "failure": the success field returned
   hideLoadingCalled |-> FALSE] \* by the then callback of handleFormSubmission

IdleCmd ==
  [type |-> "", pc |-> "idle",
   pending |-> {},     \* the deletions clearAllCaches waits for
   reopened |-> {},    \* the namespaces others created while it waits
   handle |-> "none",  \* the Cache updateCache opened: "live", "orphan"
   replies |-> 0]      \* the {success: true} messages posted on the port

\* ------------------------- SocialProofNotifications (script.js 173-413)
MaxFocus == 2
maxNotifications == 1
minInterval == 8000
maxInterval == 25000
\* the delays of the setTimeout calls, in milliseconds
FirstDelay == 3000
StartDelay == 8000
DisplayTime == 5000
HideDelay == 400
BlurDelay == 2000
ResumeDelay == 3000
\* Math.random() * 10000 + 5000 in the rush hours
RushMin == 5000
RushSpan == 10000
\* the longest step of the clock, in milliseconds
Quantum == 1000

\* What Math.random() can make of the delay before the next notification: the
\* least value of the range and one near its end.
Intervals(rush) ==
  IF rush THEN {RushMin, RushMin + RushSpan - Quantum}
  ELSE {minInterval, maxInterval - Quantum}

\* The fields of #orderForm that detectFormFocus listens on.
Fields == {"name", "phone"}
NoField == ""
\* The notification elements the page creates.
Notifications == 1..(MaxFocus + 3)

Min(a, b) == IF a < b THEN a ELSE b
\* A pending setTimeout: its callback, the milliseconds left, and the
\* notification its callback closes over (0 when none).
Timer(kind, left, n) == [kind |-> kind, left |-> left, n |-> n]
InitialSocialProof ==
  [isActive |-> TRUE,
   notificationQueue |-> <<>>,
   sinceLastNotification |-> minInterval] \* Date.now() - lastNotificationTime, capped

\* -------------- the main slider (script.js 442-515, 887-912; part_000)
MaxGestures == 2
MaxSlides == 3
\* Math.abs(diff) > 50: the least distance of a swipe, in pixels
SwipeThreshold == 50
\* The two versions of the page script: script.js, and the fuller one in
\* unnamed/part_000 with initializeTouchSupport and its own autoplay tick.
PageScripts == {"script.js", "part_000"}
\* The horizontal and vertical distances of a gesture, about the threshold.
DeltaXs == {-(SwipeThreshold + 1), -SwipeThreshold, 0, SwipeThreshold, SwipeThreshold + 1}
DeltaYs == {0, SwipeThreshold + 2}
Abs(x) == IF x < 0 THEN -x ELSE x

\* A JavaScript number: an integer or NaN.
Num(v) == [nan |-> FALSE, val |-> v]
NaN == [nan |-> TRUE, val |-> 0]
\* a + b
JSAdd(a, b) == IF a.nan \/ b.nan THEN NaN ELSE Num(a.val + b.val)
\* a % b for a >= 0: NaN when the divisor is 0
JSRemainder(a, b) ==
  IF a.nan \/ b.nan \/ b.val = 0 THEN NaN ELSE Num(a.val % b.val)

\* The script's top-level variables before DOMContentLoaded.
InitialSlider ==
  [script |-> "",
   totalMainSlides |-> 0,
   currentMainSlide |-> Num(0),
   mainAutoPlayInterval |-> 0,   \* the id setInterval returned; 0: undefined
   intervals |-> {},             \* the ids of the intervals not cleared
   isDragging |-> FALSE,
   pointer |-> "away",           \* "touching", "hovering", "pressing"
   lastAutoPlayCall |-> "none"]  \* "start" or "pause"
NoSwipe == [dx |-> 0, dy |-> 0, from |-> Num(0), to |-> Num(0), total |-> 0]

VARIABLES
  workerState,        \* "installing", "installed" (waiting), "activating", "activated"
  installPc,          \* "start", "opened", "settled"
  installPromise,     \* the promise given to the install event's waitUntil
  installHandle,      \* the Cache install opened: "none", "live", "orphan"
  addAllFailed,       \* whether install's cache.addAll rejected
  skipWaitingCalled,
  oldWorkerActive,    \* a previous version still controls open pages
  cacheOrder,         \* caches.keys(): the existing namespaces in creation order
  store,              \* the entries of each namespace
  actSnapshot,        \* what caches.keys() gave the activate handler, while it runs
  actPending,         \* the deletions the activate handler waits for
  actInterfered,      \* a command changed the namespaces during activation
  clientsClaimed,
  req,                \* the fetch events and their handlers
  cmd,                \* the control messages and their handlers
  hook,               \* the page's order submissions (sendToMakeWebhook calls)
  socialProofSystem,  \* the page's SocialProofNotifications object
  container,          \* the notifications in #socialProofContainer
  timers,             \* the setTimeout calls of socialProofSystem still to fire
  focused,            \* the #orderForm field that has focus, or NoField
  focusEvents,        \* the focus and blur events so far
  sinceShown,         \* milliseconds since a notification was last displayed
  slider,             \* the main slider: the script's variables and its intervals
  swipe,              \* the last touch gesture and the slide before and after it
  sliderEvents        \* the clicks and gestures on the slider so far

lifecycleVars ==
  <<workerState, installPc, installPromise, addAllFailed, skipWaitingCalled,
    oldWorkerActive, actSnapshot, actPending, actInterfered, clientsClaimed>>
cacheVars == <<cacheOrder, store, installHandle>>
swVars == <<lifecycleVars, cacheVars, req, cmd>>
tickerVars == <<socialProofSystem, container, timers, focused, focusEvents, sinceShown>>
sliderVars == <<slider, swipe, sliderEvents>>
pageVars == <<hook, tickerVars, sliderVars>>
vars == <<swVars, pageVars>>

\* --------------------------------------------------------- CacheStorage
Range(s) == {s[i] : i \in DOMAIN s}

\* caches.open(name): the namespace is created when it does not exist.
CachesOpen(order, name) ==
  IF name \in Range(order) THEN order ELSE Append(order, name)

\* caches.match(request): the namespaces are searched in creation order.
CachesMatch(order, st, url) ==
  LET hits == {i \in DOMAIN order : \E e \in st[order[i]] : e.url = url}
  IN  IF hits = {} THEN Undefined
      ELSE LET i == CHOOSE h \in hits : \A k \in hits : h <= k
               e == CHOOSE x \in st[order[i]] : x.url = url
           IN  Response(e.body, TRUE)

\* Mutant: put adds the entry beside one the namespace holds for the URL.
CachePut_Append(st, name, url, body) ==
  [st EXCEPT ![name] = @ \cup {[url |-> url, body |-> body]}]

\* cache.put(request, response): an entry for the same URL is replaced.
CachePut(st, name, url, body) ==
  [st EXCEPT ![name] = {e \in @ : e.url # url} \cup {[url |-> url, body |-> body]}]

\* Mutant: addAll adds its entries beside the ones a namespace already holds.
CacheAddAll_Append(st, name, urls, body) ==
  [st EXCEPT ![name] = @ \cup {[url |-> u, body |-> body] : u \in urls}]

\* cache.addAll(requests) once every response arrived successfully.
RECURSIVE CacheAddAll(_, _, _, _)
CacheAddAll(st, name, urls, body) ==
  IF urls = {} THEN st
  ELSE LET u == CHOOSE x \in urls : TRUE
       IN  CacheAddAll(CachePut(st, name, u, body), name, urls \ {u}, body)

\* caches.delete(name), on the namespaces, the entries, and the Cache objects
\* still held by running handlers: a held Cache of a deleted namespace keeps
\* working but CacheStorage no longer reaches it.
DeleteOrder(order, name) == SelectSeq(order, LAMBDA n : n # name)
DeleteStore(st, name) == [st EXCEPT ![name] = {}]
DeleteReqHandles(rq, name) ==
  [r \in DOMAIN rq |->
     IF rq[r].put = "pending" /\ rq[r].putName = name
     THEN [rq[r] EXCEPT !.put = "orphan"] ELSE rq[r]]
DeleteCmdHandles(cm, name) ==
  [c \in DOMAIN cm |->
     IF cm[c].handle = "live" /\ name = CACHE_STATIC_NAME
     THEN [cm[c] EXCEPT !.handle = "orphan"] ELSE cm[c]]
DeleteInstallHandle(h, name) ==
  IF h = "live" /\ name = CACHE_STATIC_NAME THEN "orphan" ELSE h

\* A caches.open that created namespaces while a clearAllCaches waits for its
\* deletions: the namespaces are noted with that command.
NoteOpened(cm, order) ==
  [c \in DOMAIN cm |->
     IF cm[c].pc = "deleting"
     THEN [cm[c] EXCEPT !.reopened = @ \cup (Range(order) \ Range(cacheOrder))]
     ELSE cm[c]]

\* -------------------------------------------------------------------- Init
\* The namespaces found by a first installation and by an upgrade from v2.0.0.
InitialCaches ==
  { <<>>, <<OldStaticName, OldDynamicName, ForeignName>> }

Init ==
  /\ workerState = "installing"
  /\ installPc = "start"
  /\ installPromise = "pending"
  /\ installHandle = "none"
  /\ addAllFailed = FALSE
  /\ skipWaitingCalled = FALSE
  /\ oldWorkerActive \in BOOLEAN
  /\ cacheOrder \in InitialCaches
  /\ store = [n \in CacheNames |->
                IF n = OldStaticName /\ n \in Range(cacheOrder)
                THEN {[url |-> PageIndex, body |-> <<"old", 0>>]} ELSE {}]
  /\ actSnapshot = <<>>
  /\ actPending = {}
  /\ actInterfered = FALSE
  /\ clientsClaimed = FALSE
  /\ req = [r \in Requests |-> IdleReq]
  /\ cmd = [c \in Commands |-> IdleCmd]
  /\ hook = [s \in Submissions |-> IdleHook]
  /\ socialProofSystem = InitialSocialProof
  /\ container = {}
  /\ timers = SetToBag({Timer("showOnce", FirstDelay, 0), Timer("schedule", StartDelay, 0)})
  /\ focused = NoField
  /\ focusEvents = 0
  /\ sinceShown = minInterval
  /\ slider = InitialSlider
  /\ swipe = NoSwipe
  /\ sliderEvents = 0

\* The page alone, its worker having no old version and no caches.
PageInit ==
  /\ Init
  /\ ~oldWorkerActive
  /\ cacheOrder = <<>>

\* ------------------------------------------------- install (sw.js 29-48)
\* caches.open(CACHE_STATIC_NAME) and caches.open(CACHE_DYNAMIC_NAME)
InstallOpen ==
  /\ workerState = "installing" /\ installPc = "start"
  /\ cacheOrder' = CachesOpen(CachesOpen(cacheOrder, CACHE_STATIC_NAME), CACHE_DYNAMIC_NAME)
  /\ installHandle' = "live"
  /\ installPc' = "opened"
  /\ cmd' = NoteOpened(cmd, cacheOrder')
  /\ UNCHANGED <<pageVars, workerState, installPromise, addAllFailed, skipWaitingCalled,
                 oldWorkerActive, actSnapshot, actPending, actInterfered,
                 clientsClaimed, store, req>>

\* Promise.all([...]).then(() => self.skipWaiting()).catch(error => log):
\* the catch handler returns normally, so the chained promise is fulfilled
\* whether or not addAll rejected.
InstallSettles(failed) == IF failed THEN "fulfilled" ELSE "fulfilled"

\* The manifest fetches that fail in one cache.addAll: none, or one of them.
AddAllFailures == {{}} \cup {{u} : u \in ManifestKeys}

\* cache.addAll(manifest) fetches every URL; it stores all of them when every
\* fetch succeeded and none when some fetch failed (the URLs in `failed`).
InstallAddAll ==
  \E failed \in AddAllFailures :
    /\ workerState = "installing" /\ installPc = "opened"
    /\ addAllFailed' = (failed # {})
    /\ store' = IF failed = {} /\ installHandle = "live"
                THEN CacheAddAll(store, CACHE_STATIC_NAME, ManifestKeys, <<"install", 0>>)
                ELSE store
    /\ skipWaitingCalled' = (skipWaitingCalled \/ failed = {})
    /\ installPromise' = InstallSettles(failed # {})
    /\ workerState' = IF InstallSettles(failed # {}) = "fulfilled"
                      THEN "installed" ELSE "redundant"
    /\ installPc' = "settled"
    /\ installHandle' = "none"
    /\ UNCHANGED <<pageVars, oldWorkerActive, actSnapshot, actPending, actInterfered,
                   clientsClaimed, cacheOrder, req, cmd>>

\* The pages of the previous version close: nothing holds the waiting worker
\* back any more.
OldClientsClose ==
  /\ oldWorkerActive
  /\ workerState \in {"installing", "installed"}
  /\ oldWorkerActive' = FALSE
  /\ UNCHANGED <<pageVars, workerState, installPc, installPromise, addAllFailed,
                 skipWaitingCalled, actSnapshot, actPending, actInterfered,
                 clientsClaimed, cacheVars, req, cmd>>

\* ------------------------------------------------ activate (sw.js 51-71)
\* Mutant: the prefix test is forgotten, every other namespace is stale.
IsStale_AnyOther(cacheName) ==
  /\ cacheName # CACHE_STATIC_NAME
  /\ cacheName # CACHE_DYNAMIC_NAME

IsStale(cacheName) ==
  /\ cacheName # CACHE_STATIC_NAME
  /\ cacheName # CACHE_DYNAMIC_NAME
  /\ StartsWith(Chars(cacheName), Chars("police288-"))

\* Mutant: clients.claim() is called when the deletions are started.
ActivateKeys_ClaimAtOnce ==
  /\ workerState = "installed"
  /\ skipWaitingCalled \/ ~oldWorkerActive
  /\ actPending' = {n \in Range(cacheOrder) : IsStale(n)}
  /\ actInterfered' = FALSE
  /\ oldWorkerActive' = FALSE
  /\ clientsClaimed' = TRUE
  /\ IF actPending' = {}
     THEN workerState' = "activated" /\ actSnapshot' = <<>>
     ELSE workerState' = "activating" /\ actSnapshot' = cacheOrder
  /\ UNCHANGED <<pageVars, installPc, installPromise, addAllFailed, skipWaitingCalled,
                 cacheVars, req, cmd>>

\* The activate event and its caches.keys(): one deletion is started for each
\* stale name; with none to wait for, clients.claim() follows at once.
ActivateKeys ==
  /\ workerState = "installed"
  /\ skipWaitingCalled \/ ~oldWorkerActive
  /\ actPending' = {n \in Range(cacheOrder) : IsStale(n)}
  /\ actInterfered' = FALSE
  /\ oldWorkerActive' = FALSE
  /\ IF actPending' = {}
     THEN workerState' = "activated" /\ clientsClaimed' = TRUE /\ actSnapshot' = <<>>
     ELSE workerState' = "activating" /\ actSnapshot' = cacheOrder
          /\ UNCHANGED clientsClaimed
  /\ UNCHANGED <<pageVars, installPc, installPromise, addAllFailed, skipWaitingCalled,
                 cacheVars, req, cmd>>

\* One caches.delete(cacheName) of the activate handler completes; the last
\* one settles Promise.all, and clients.claim() follows.
ActivateDelete(n) ==
  /\ workerState = "activating"
  /\ n \in actPending
  /\ cacheOrder' = DeleteOrder(cacheOrder, n)
  /\ store' = DeleteStore(store, n)
  /\ installHandle' = DeleteInstallHandle(installHandle, n)
  /\ req' = DeleteReqHandles(req, n)
  /\ cmd' = DeleteCmdHandles(cmd, n)
  /\ actPending' = actPending \ {n}
  /\ IF actPending' = {}
     THEN workerState' = "activated" /\ clientsClaimed' = TRUE
          /\ actSnapshot' = <<>> /\ actInterfered' = FALSE
     ELSE UNCHANGED <<workerState, clientsClaimed, actSnapshot, actInterfered>>
  /\ UNCHANGED <<pageVars, installPc, installPromise, addAllFailed, skipWaitingCalled,
                 oldWorkerActive>>

\* ------------------------------------------- commands (sw.js 207-244)
CommandTypes == {"SKIP_WAITING", "CLEAR_CACHE", "UPDATE_CACHE"}

\* A command that changes the set of namespaces while activation is under way.
Interferes(order) == actInterfered \/ (workerState = "activating" /\ order # cacheOrder)

MessageEvent(c, type) ==
  /\ workerState # "redundant"
  /\ cmd[c].pc = "idle"
  /\ \A d \in Commands : d < c => cmd[d].pc # "idle"
  /\ cmd' = [cmd EXCEPT ![c] =
       [IdleCmd EXCEPT !.type = type,
                       !.pc = CASE type = "SKIP_WAITING" -> "done"
                                [] type = "CLEAR_CACHE" -> "keys"
                                [] type = "UPDATE_CACHE" -> "open"]]
  /\ skipWaitingCalled' = (skipWaitingCalled \/ type = "SKIP_WAITING")
  /\ UNCHANGED <<pageVars, workerState, installPc, installPromise, addAllFailed,
                 oldWorkerActive, actSnapshot, actPending, actInterfered,
                 clientsClaimed, cacheVars, req>>

\* Mutant: the reply is posted when the deletions are started, not awaited.
ClearKeys_ReplyAtOnce(c) ==
  /\ cmd[c].pc = "keys"
  /\ cmd' = [cmd EXCEPT ![c] =
       IF cacheOrder = <<>>
       THEN [@ EXCEPT !.pc = "done", !.replies = @ + 1]
       ELSE [@ EXCEPT !.pc = "deleting", !.pending = Range(cacheOrder),
                      !.replies = @ + 1]]
  /\ UNCHANGED <<pageVars, lifecycleVars, cacheVars, req>>

\* Mutant: only the application's own namespaces are deleted.
ClearKeys_OwnOnly(c) ==
  LET own == {n \in Range(cacheOrder) : StartsWith(Chars(n), Chars("police288-"))}
  IN  /\ cmd[c].pc = "keys"
      /\ cmd' = [cmd EXCEPT ![c] =
           IF own = {}
           THEN [@ EXCEPT !.pc = "done", !.replies = @ + 1]
           ELSE [@ EXCEPT !.pc = "deleting", !.pending = own]]
      /\ UNCHANGED <<pageVars, lifecycleVars, cacheVars, req>>

\* clearAllCaches: caches.keys() answers; a deletion is started for each name.
\* With nothing to delete the function returns and the reply is posted.
ClearKeys(c) ==
  /\ cmd[c].pc = "keys"
  /\ cmd' = [cmd EXCEPT ![c] =
       IF cacheOrder = <<>>
       THEN [@ EXCEPT !.pc = "done", !.replies = @ + 1]
       ELSE [@ EXCEPT !.pc = "deleting", !.pending = Range(cacheOrder)]]
  /\ UNCHANGED <<pageVars, lifecycleVars, cacheVars, req>>

\* One caches.delete of clearAllCaches completes; after the last one the
\* function returns and the reply is posted.
ClearDelete(c, n) ==
  /\ cmd[c].pc = "deleting"
  /\ n \in cmd[c].pending
  /\ cacheOrder' = DeleteOrder(cacheOrder, n)
  /\ store' = DeleteStore(store, n)
  /\ installHandle' = DeleteInstallHandle(installHandle, n)
  /\ req' = DeleteReqHandles(req, n)
  /\ cmd' = [DeleteCmdHandles(cmd, n) EXCEPT ![c] =
       IF cmd[c].pending = {n}
       THEN [@ EXCEPT !.pc = "done", !.pending = {}, !.reopened = {}, !.replies = @ + 1]
       ELSE [@ EXCEPT !.pending = @ \ {n}]]
  /\ actInterfered' = Interferes(cacheOrder')
  /\ UNCHANGED <<pageVars, workerState, installPc, installPromise, addAllFailed,
                 skipWaitingCalled, oldWorkerActive, actSnapshot, actPending,
                 clientsClaimed>>

\* updateCache: caches.open(CACHE_STATIC_NAME)
UpdateOpen(c) ==
  /\ cmd[c].pc = "open"
  /\ cacheOrder' = CachesOpen(cacheOrder, CACHE_STATIC_NAME)
  /\ cmd' = [NoteOpened(cmd, cacheOrder') EXCEPT ![c] =
       [@ EXCEPT !.pc = "addAll", !.handle = "live"]]
  /\ actInterfered' = Interferes(cacheOrder')
  /\ UNCHANGED <<pageVars, workerState, installPc, installPromise, addAllFailed,
                 skipWaitingCalled, oldWorkerActive, actSnapshot, actPending,
                 clientsClaimed, store, installHandle, req>>

\* updateCache: cache.addAll(manifest) settles; the reply is posted only when
\* it was fulfilled (the rejection of updateCache() has no handler).
UpdateAddAll(c) ==
  \E failed \in AddAllFailures :
    /\ cmd[c].pc = "addAll"
    /\ store' = IF failed = {} /\ cmd[c].handle = "live"
                THEN CacheAddAll(store, CACHE_STATIC_NAME, ManifestKeys, <<"update", c>>)
                ELSE store
    /\ cmd' = [cmd EXCEPT ![c] =
         [@ EXCEPT !.pc = "done", !.handle = "none",
                   !.replies = IF failed = {} THEN @ + 1 ELSE @]]
    /\ UNCHANGED <<pageVars, lifecycleVars, cacheOrder, installHandle, req>>

\* -------------------------------------------- fetch listener (sw.js 74-94)
NetworkOutcomes == {"ok", "notok", "throw"}

\* The response fetch(request) gave handler r: its body is the handler's own.
NetworkResponse(r) == Response(<<"req", r>>, req[r].net = "ok")

FetchEvent(r, input) ==
  /\ workerState = "activated"
  /\ req[r].pc = "idle"
  /\ \A q \in Requests : q < r => req[q].pc # "idle"
  /\ req' = [req EXCEPT ![r] =
       [IdleReq EXCEPT !.method = input[1], !.url = input[2],
                       !.strategy = StrategyOf[input],
                       !.pc = CASE StrategyOf[input] = "none" -> "ignored"
                                [] StrategyOf[input] \in {"static", "image"} -> "match"
                                [] OTHER -> "fetch"]]
  /\ UNCHANGED <<pageVars, lifecycleVars, cacheVars, cmd>>

\* ------------------------------------- handleStaticAsset (sw.js 116-135)
\* Mutant: a cached entry is revalidated against the network.
StaticMatch_Revalidate(r) ==
  LET cached == CachesMatch(cacheOrder, store, req[r].url)
  IN  /\ req' = [req EXCEPT ![r] =
             [@ EXCEPT !.lookup = IF cached.kind = "response" THEN "hit" ELSE "miss",
                       !.pc = "fetch"]]
      /\ UNCHANGED cacheOrder

\* const cachedResponse = await caches.match(request); if (cachedResponse) return
StaticMatch(r) ==
  LET cached == CachesMatch(cacheOrder, store, req[r].url)
  IN  /\ req' = [req EXCEPT ![r] =
             IF cached.kind = "response"
             THEN [@ EXCEPT !.lookup = "hit", !.result = cached, !.pc = "done"]
             ELSE [@ EXCEPT !.lookup = "miss", !.pc = "fetch"]]
      /\ UNCHANGED cacheOrder

\* const networkResponse = await fetch(request)
StaticFetch(r) ==
  \E o \in NetworkOutcomes :
    /\ req' = [req EXCEPT ![r] =
           [@ EXCEPT !.net = o, !.pc = IF o = "throw" THEN "catch" ELSE "open"]]
    /\ UNCHANGED cacheOrder

\* Mutant: the response is stored whatever its status.
StaticStore_Always(r) ==
  /\ cacheOrder' = CachesOpen(cacheOrder, CACHE_STATIC_NAME)
  /\ req' = [req EXCEPT ![r] =
         [@ EXCEPT !.result = Response(<<"req", r>>, req[r].net = "ok"), !.pc = "done",
                   !.put = "pending", !.putName = CACHE_STATIC_NAME]]

\* Mutant: the response is stored in the dynamic namespace.
StaticStore_Dynamic(r) ==
  /\ cacheOrder' = CachesOpen(cacheOrder, CACHE_DYNAMIC_NAME)
  /\ req' = [req EXCEPT ![r] =
         [@ EXCEPT !.result = NetworkResponse(r), !.pc = "done",
                   !.put = IF req[r].net = "ok" THEN "pending" ELSE "none",
                   !.putName = IF req[r].net = "ok" THEN CACHE_DYNAMIC_NAME ELSE ""]]

\* const cache = await caches.open(CACHE_STATIC_NAME);
\* if (networkResponse.ok) cache.put(request, networkResponse.clone());
\* return networkResponse      (the put is started and not awaited)
StaticStore(r) ==
  /\ cacheOrder' = CachesOpen(cacheOrder, CACHE_STATIC_NAME)
  /\ req' = [req EXCEPT ![r] =
         [@ EXCEPT !.result = NetworkResponse(r), !.pc = "done",
                   !.put = IF req[r].net = "ok" THEN "pending" ELSE "none",
                   !.putName = IF req[r].net = "ok" THEN CACHE_STATIC_NAME ELSE ""]]

\* Mutant: the image strategy's placeholder is answered when nothing is cached.
StaticCatch_Placeholder(r) ==
  LET cached == CachesMatch(cacheOrder, store, req[r].url)
  IN  /\ req' = [req EXCEPT ![r] =
             [@ EXCEPT !.pc = "done",
                       !.result = IF cached.kind = "response" THEN cached ELSE Placeholder]]
      /\ UNCHANGED cacheOrder

\* catch (error) { return caches.match(request) }
StaticCatch(r) ==
  /\ req' = [req EXCEPT ![r] =
         [@ EXCEPT !.result = CachesMatch(cacheOrder, store, req[r].url), !.pc = "done"]]
  /\ UNCHANGED cacheOrder

handleStaticAsset(r) ==
  CASE req[r].pc = "match" -> StaticMatch(r)
    [] req[r].pc = "fetch" -> StaticFetch(r)
    [] req[r].pc = "open" -> StaticStore(r)
    [] req[r].pc = "catch" -> StaticCatch(r)

\* ------------------------------------ handleImageRequest (sw.js 138-170)
ImageMatch(r) ==
  LET cached == CachesMatch(cacheOrder, store, req[r].url)
  IN  /\ req' = [req EXCEPT ![r] =
             IF cached.kind = "response"
             THEN [@ EXCEPT !.lookup = "hit", !.result = cached, !.pc = "done"]
             ELSE [@ EXCEPT !.lookup = "miss", !.pc = "fetch"]]
      /\ UNCHANGED cacheOrder

\* await fetch(request); an unsuccessful response is returned at once
ImageFetch(r) ==
  \E o \in NetworkOutcomes :
    /\ req' = [req EXCEPT ![r] =
           CASE o = "throw" -> [@ EXCEPT !.net = o, !.pc = "catch"]
             [] o = "ok" -> [@ EXCEPT !.net = o, !.pc = "open"]
             [] o = "notok" -> [@ EXCEPT !.net = o, !.pc = "done",
                                         !.result = Response(<<"req", r>>, FALSE)]]
    /\ UNCHANGED cacheOrder

\* const cache = await caches.open(CACHE_DYNAMIC_NAME); cache.put(...); return
ImageStore(r) ==
  /\ cacheOrder' = CachesOpen(cacheOrder, CACHE_DYNAMIC_NAME)
  /\ req' = [req EXCEPT ![r] =
         [@ EXCEPT !.result = NetworkResponse(r), !.pc = "done",
                   !.put = "pending", !.putName = CACHE_DYNAMIC_NAME]]

\* catch: the cached version, or the placeholder image
ImageCatch(r) ==
  LET cached == CachesMatch(cacheOrder, store, req[r].url)
  IN  /\ req' = [req EXCEPT ![r] =
             [@ EXCEPT !.pc = "done",
                       !.result = IF cached.kind = "response" THEN cached ELSE Placeholder]]
      /\ UNCHANGED cacheOrder

handleImageRequest(r) ==
  CASE req[r].pc = "match" -> ImageMatch(r)
    [] req[r].pc = "fetch" -> ImageFetch(r)
    [] req[r].pc = "open" -> ImageStore(r)
    [] req[r].pc = "catch" -> ImageCatch(r)

\* -------------------------------------- handleAPIRequest (sw.js 173-181)
handleAPIRequest(r) ==
  \E o \in NetworkOutcomes :
    /\ req[r].pc = "fetch"
    /\ req' = [req EXCEPT ![r] =
           [@ EXCEPT !.net = o, !.pc = "done",
                     !.result = IF o = "throw" THEN Rejected
                                ELSE Response(<<"req", r>>, o = "ok")]]
    /\ UNCHANGED cacheOrder

\* ------------------------------------- handleHTMLRequest (sw.js 184-205)
HTMLFetch(r) ==
  \E o \in NetworkOutcomes :
    /\ req' = [req EXCEPT ![r] =
           CASE o = "throw" -> [@ EXCEPT !.net = o, !.pc = "catch"]
             [] o = "ok" -> [@ EXCEPT !.net = o, !.pc = "open"]
             [] o = "notok" -> [@ EXCEPT !.net = o, !.pc = "done",
                                         !.result = Response(<<"req", r>>, FALSE)]]
    /\ UNCHANGED cacheOrder

HTMLStore(r) ==
  /\ cacheOrder' = CachesOpen(cacheOrder, CACHE_DYNAMIC_NAME)
  /\ req' = [req EXCEPT ![r] =
         [@ EXCEPT !.result = NetworkResponse(r), !.pc = "done",
                   !.put = "pending", !.putName = CACHE_DYNAMIC_NAME]]

\* const cachedResponse = await caches.match(request); if (cachedResponse) return
HTMLCatch(r) ==
  LET cached == CachesMatch(cacheOrder, store, req[r].url)
  IN  /\ req' = [req EXCEPT ![r] =
             IF cached.kind = "response"
             THEN [@ EXCEPT !.result = cached, !.pc = "done"]
             ELSE [@ EXCEPT !.pc = "offline"]]
      /\ UNCHANGED cacheOrder

\* return caches.match('/index.html')
HTMLOffline(r) ==
  /\ req' = [req EXCEPT ![r] =
         [@ EXCEPT !.pc = "done",
                   !.result = CachesMatch(cacheOrder, store, RequestURL("/index.html"))]]
  /\ UNCHANGED cacheOrder

handleHTMLRequest(r) ==
  CASE req[r].pc = "fetch" -> HTMLFetch(r)
    [] req[r].pc = "open" -> HTMLStore(r)
    [] req[r].pc = "catch" -> HTMLCatch(r)
    [] req[r].pc = "offline" -> HTMLOffline(r)

\* event.respondWith(handleX(request)): one step of the handler the listener chose.
RespondWith(r) ==
  /\ req[r].pc \in {"match", "fetch", "open", "catch", "offline"}
  /\ CASE req[r].strategy = "static" -> handleStaticAsset(r)
       [] req[r].strategy = "image" -> handleImageRequest(r)
       [] req[r].strategy = "api" -> handleAPIRequest(r)
       [] req[r].strategy = "html" -> handleHTMLRequest(r)
  /\ cmd' = NoteOpened(cmd, cacheOrder')
  /\ UNCHANGED <<pageVars, lifecycleVars, store, installHandle>>

\* A cache.put a handler started completes.
PutCommit(r) ==
  /\ req[r].put \in {"pending", "orphan"}
  /\ store' = IF req[r].put = "pending"
              THEN CachePut(store, req[r].putName, req[r].url, <<"req", r>>)
              ELSE store
  /\ req' = [req EXCEPT ![r] =
         [@ EXCEPT !.put = IF req[r].put = "pending" THEN "done" ELSE "lost"]]
  /\ UNCHANGED <<pageVars, lifecycleVars, cacheOrder, installHandle, cmd>>

\* ------------------------------------- a failing cache store (sw.js 116-205)
\* A cache operation of handler r throws (quota exceeded, corrupted store).
\* caches.match at the start of handleStaticAsset or handleImageRequest and
\* caches.open after the fetch are inside the try block: control passes to
\* the catch block.  The caches.match calls of a catch block are outside any
\* try: the handler rejects.  cache.put is not awaited: its rejection reaches
\* nobody and the handler's result stands.
CacheStoreFails(r) ==
  /\ req[r].strategy \in {"static", "image", "html"}
  /\ \/ /\ req[r].pc \in {"match", "open"}
        /\ req' = [req EXCEPT ![r] = [@ EXCEPT !.fault = req[r].pc, !.pc = "catch"]]
     \/ /\ req[r].pc \in {"catch", "offline"}
        /\ req' = [req EXCEPT ![r] =
               [@ EXCEPT !.fault = IF @ = "none" THEN req[r].pc ELSE @,
                         !.result = Rejected, !.pc = "done"]]
     \/ /\ req[r].put = "pending"
        /\ req' = [req EXCEPT ![r] =
               [@ EXCEPT !.fault = IF @ = "none" THEN "put" ELSE @, !.put = "failed"]]
  /\ UNCHANGED <<pageVars, lifecycleVars, cacheVars, cmd>>

\* ------------------------------------------------------------------- Next
\* install and activate
LifecycleNext ==
  \/ InstallOpen
  \/ InstallAddAll
  \/ OldClientsClose
  \/ ActivateKeys
  \/ \E n \in CacheNames : ActivateDelete(n)

\* the message listener and the functions it calls
CommandNext ==
  \/ \E c \in Commands, t \in CommandTypes : MessageEvent(c, t)
  \/ \E c \in Commands : ClearKeys(c)
  \/ \E c \in Commands, n \in CacheNames : ClearDelete(c, n)
  \/ \E c \in Commands : UpdateOpen(c)
  \/ \E c \in Commands : UpdateAddAll(c)

\* the fetch listener and the handlers it calls
FetchNext ==
  \/ \E r \in Requests, i \in FetchInputs : FetchEvent(r, i)
  \/ \E r \in Requests : RespondWith(r)
  \/ \E r \in Requests : PutCommit(r)

Next == LifecycleNext \/ CommandNext \/ FetchNext

\* The whole worker: lifecycle, commands and page traffic interleaved.
Spec == Init /\ [][Next]_vars

\* The worker up to the end of activation and the commands sent to it; fetch
\* events are dispatched only to an activated worker, so none interleaves
\* with install or activate.
LifecycleCommandNext == LifecycleNext \/ CommandNext
SpecLifecycle == Init /\ [][LifecycleCommandNext]_vars
\* The same with the event loop running the handlers of a command on: each
\* cache operation a command waits for settles, and its continuation runs.
CommandFairness ==
  \A c \in Commands :
    /\ WF_vars(ClearKeys(c))
    /\ WF_vars(\E n \in CacheNames : ClearDelete(c, n))
    /\ WF_vars(UpdateOpen(c))
    /\ WF_vars(UpdateAddAll(c))
SpecLifecycleLive == Init /\ [][LifecycleCommandNext]_vars /\ CommandFairness

\* The worker serving page traffic, with no command sent to it.
LifecycleFetchNext == LifecycleNext \/ FetchNext
SpecFetch == Init /\ [][LifecycleFetchNext]_vars

\* The worker serving page traffic over a cache store whose operations can
\* fail.
CacheFailureNext == LifecycleNext \/ FetchNext \/ \E r \in Requests : CacheStoreFails(r)
SpecCacheFailure == Init /\ [][CacheFailureNext]_vars

\* --------------------------------- sendToMakeWebhook (script.js 554-592)
maxRetries == 2
timeout == 10000
\* setTimeout(resolve, 2000): the wait before a retry, in milliseconds
RetryDelay == 2000

\* JavaScript values with their type, as far as the retry condition needs.
JSString(s) == [type |-> "string", val |-> s]
JSBoolean(b) == [type |-> "boolean", val |-> b]
\* !v: a string is falsy only when empty
LogicalNot(v) == JSBoolean(IF v.type = "string" THEN v.val = "" ELSE ~v.val)
\* a === b: no conversion; values of different types are never equal
StrictEquals(a, b) == a.type = b.type /\ a.val = b.val

\* retryCount < maxRetries && !error.name === 'AbortError'
\* (the negation binds tighter than the comparison)
ShouldRetry(retryCount, errorName) ==
  /\ retryCount < maxRetries
  /\ StrictEquals(LogicalNot(JSString(errorName)), JSString("AbortError"))

\* handleFormSubmission calls sendToMakeWebhook(formData): the first fetch is
\* started and the abort timer armed.  Nothing keeps the form from being
\* submitted again while a submission is under way.
handleFormSubmission(s) ==
  /\ hook[s].pc = "idle"
  /\ \A t \in Submissions : t < s => hook[t].pc # "idle"
  /\ hook' = [hook EXCEPT ![s] = [IdleHook EXCEPT !.pc = "fetching", !.attempts = 1]]
  /\ UNCHANGED <<swVars, tickerVars, sliderVars>>

\* A second passes while the fetch is pending.
AttemptTimePasses(s) ==
  /\ hook[s].pc = "fetching"
  /\ hook[s].elapsed < timeout
  /\ hook' = [hook EXCEPT ![s] = [@ EXCEPT !.elapsed = @ + 1000]]
  /\ UNCHANGED <<swVars, tickerVars, sliderVars>>

\* The fetch settles before the timer fires and the timer is cleared: with
\* response.ok the body is read next, any other status throws new Error(...),
\* a network failure rejects with a TypeError.
FetchSettles(s) ==
  \E o \in NetworkOutcomes :
    /\ hook[s].pc = "fetching"
    /\ hook[s].elapsed < timeout
    /\ hook' = [hook EXCEPT ![s] =
         CASE o = "ok" -> [@ EXCEPT !.pc = "reading", !.elapsed = 0]
           [] o = "notok" -> [@ EXCEPT !.pc = "caught", !.errorName = "Error", !.elapsed = 0]
           [] o = "throw" -> [@ EXCEPT !.pc = "caught", !.errorName = "TypeError",
                                       !.elapsed = 0]]
    /\ UNCHANGED <<swVars, tickerVars, sliderVars>>

\* await response.text() settles: {success: true, data} is returned and the
\* then callback calls hideLoading(), or the body cannot be read and the
\* rejection is caught.  No timer runs while the body is read.
ResponseTextSettles(s) ==
  \E o \in {"ok", "throw"} :
    /\ hook[s].pc = "reading"
    /\ hook' = [hook EXCEPT ![s] =
         IF o = "ok"
         THEN [@ EXCEPT !.pc = "done", !.result = "success", !.hideLoadingCalled = TRUE]
         ELSE [@ EXCEPT !.pc = "caught", !.errorName = "TypeError"]]
    /\ UNCHANGED <<swVars, tickerVars, sliderVars>>

\* setTimeout(() => controller.abort(), timeout) fires: the fetch rejects with
\* an AbortError.
AbortTimerFires(s) ==
  /\ hook[s].pc = "fetching"
  /\ hook[s].elapsed = timeout
  /\ hook' = [hook EXCEPT ![s] =
       [@ EXCEPT !.pc = "caught", !.errorName = "AbortError", !.elapsed = 0]]
  /\ UNCHANGED <<swVars, tickerVars, sliderVars>>

\* The catch block: either the wait and the recursive call with
\* retryCount + 1, or return {success: false, error: error.message}.
sendToMakeWebhookCatch(s) ==
  /\ hook[s].pc \in {"caught", "waiting"}
  /\ hook' = [hook EXCEPT ![s] =
       CASE hook[s].pc = "caught" /\ ShouldRetry(hook[s].retryCount, hook[s].errorName) ->
              [@ EXCEPT !.pc = "waiting", !.waited = 0]
         [] hook[s].pc = "caught" /\ ~ShouldRetry(hook[s].retryCount, hook[s].errorName) ->
              [@ EXCEPT !.pc = "done", !.result = "failure", !.hideLoadingCalled = TRUE]
         [] hook[s].pc = "waiting" /\ hook[s].waited < RetryDelay ->
              [@ EXCEPT !.waited = @ + 1000]
         [] OTHER ->
              [@ EXCEPT !.pc = "fetching", !.retryCount = @ + 1, !.attempts = @ + 1,
                        !.waited = 0, !.errorName = ""]]
  /\ UNCHANGED <<swVars, tickerVars, sliderVars>>

\* The order form and its submissions.
WebhookNext ==
  \/ \E s \in Submissions : handleFormSubmission(s)
  \/ \E s \in Submissions : AttemptTimePasses(s)
  \/ \E s \in Submissions : FetchSettles(s)
  \/ \E s \in Submissions : ResponseTextSettles(s)
  \/ \E s \in Submissions : AbortTimerFires(s)
  \/ \E s \in Submissions : sendToMakeWebhookCatch(s)
SpecWebhook == Init /\ [][WebhookNext]_vars
\* The same with the event loop running what is due: time passes, a timer
\* that is due fires, and code that can continue does.  Nothing makes the
\* network answer.
WebhookFairness ==
  \A s \in Submissions :
    /\ WF_vars(AttemptTimePasses(s))
    /\ WF_vars(AbortTimerFires(s))
    /\ WF_vars(sendToMakeWebhookCatch(s))
SpecWebhookLive == PageInit /\ [][WebhookNext]_vars /\ WebhookFairness

\* ------------------- the notification ticker (script.js 229-252, 301-412)
\* The part of the page the ticker's methods read and write.
TickerState ==
  [sys |-> socialProofSystem, container |-> container, timers |-> timers,
   sinceShown |-> sinceShown]
Becomes(p) ==
  /\ socialProofSystem' = p.sys
  /\ container' = p.container
  /\ timers' = p.timers
  /\ sinceShown' = p.sinceShown

\* setTimeout(callback, delay); the id it returns is never kept
SetTimeout(p, kind, delay, n) ==
  [p EXCEPT !.timers = @ (+) SetToBag({Timer(kind, delay, n)})]
\* a timer that fired leaves the timer queue
Fired(p, t) == [p EXCEPT !.timers = @ (-) SetToBag({t})]
Due(kind) == {t \in BagToSet(timers) : t.kind = kind /\ t.left = 0}

\* document.createElement('div'): an element no timer or list refers to
NewNotification(p) ==
  CHOOSE n \in Notifications :
    /\ n \notin p.container
    /\ n \notin Range(p.sys.notificationQueue)
    /\ \A t \in BagToSet(p.timers) : t.n # n
    /\ \A m \in Notifications :
         (m < n) => \/ m \in p.container
                    \/ m \in Range(p.sys.notificationQueue)
                    \/ \E t \in BagToSet(p.timers) : t.n = m

\* showNotification without the test of the queue's length
showNotification_NoLimit(p) ==
  IF ~p.sys.isActive THEN p
  ELSE LET n == NewNotification(p) IN
       SetTimeout([p EXCEPT !.container = @ \cup {n},
                            !.sys.notificationQueue = Append(@, n),
                            !.sinceShown = 0],
                  "hide", DisplayTime, n)

\* showNotification (script.js 301-324)
showNotification(p) ==
  IF ~p.sys.isActive \/ Len(p.sys.notificationQueue) >= maxNotifications THEN p
  ELSE LET n == NewNotification(p) IN
       SetTimeout([p EXCEPT !.container = @ \cup {n},
                            !.sys.notificationQueue = Append(@, n),
                            !.sinceShown = 0],
                  "hide", DisplayTime, n)

\* hideNotification (script.js 326-339): the removal is left to a timer
hideNotification(p, n) == SetTimeout(p, "remove", HideDelay, n)

\* the callback of that timer: out of the container, out of the queue
RemoveNotification(p, n) ==
  [p EXCEPT !.container = @ \ {n},
            !.sys.notificationQueue = SelectSeq(@, LAMBDA m : m # n)]

\* scheduleNextNotification (script.js 341-367)
scheduleNextNotification(p, interval) ==
  IF ~p.sys.isActive THEN p
  ELSE IF p.sys.sinceLastNotification < minInterval
       THEN SetTimeout(p, "schedule", minInterval, 0)
       ELSE SetTimeout(p, "show", interval, 0)

\* pauseNotifications (script.js 394-402)
RECURSIVE HideEach(_, _)
HideEach(p, queue) ==
  IF queue = <<>> THEN p
  ELSE HideEach(hideNotification(p, Head(queue)), Tail(queue))
pauseNotifications(p) ==
  HideEach([p EXCEPT !.sys.isActive = FALSE], p.sys.notificationQueue)

\* resumeNotifications (script.js 404-412)
resumeNotifications(p) ==
  SetTimeout([p EXCEPT !.sys.isActive = TRUE], "schedule", ResumeDelay, 0)

\* setTimeout(() => this.showNotification(), 3000) of init fires
ShowOnceTimer ==
  \E t \in Due("showOnce") :
    /\ Becomes(showNotification(Fired(TickerState, t)))
    /\ UNCHANGED <<swVars, hook, sliderVars, focused, focusEvents>>

\* a timer whose callback is this.scheduleNextNotification() fires
ScheduleTimer ==
  \E t \in Due("schedule") : \E rush \in BOOLEAN : \E interval \in Intervals(rush) :
    /\ Becomes(scheduleNextNotification(Fired(TickerState, t), interval))
    /\ UNCHANGED <<swVars, hook, sliderVars, focused, focusEvents>>

\* the timer of scheduleNextNotification fires: showNotification(),
\* lastNotificationTime = Date.now(), scheduleNextNotification()
ShowTimer ==
  \E t \in Due("show") : \E rush \in BOOLEAN : \E interval \in Intervals(rush) :
    LET shown == showNotification(Fired(TickerState, t))
        stamped == [shown EXCEPT !.sys.sinceLastNotification = 0]
    IN /\ Becomes(scheduleNextNotification(stamped, interval))
       /\ UNCHANGED <<swVars, hook, sliderVars, focused, focusEvents>>

\* the timer of showNotification fires: hideNotification(notification)
HideTimer ==
  \E t \in Due("hide") :
    /\ Becomes(hideNotification(Fired(TickerState, t), t.n))
    /\ UNCHANGED <<swVars, hook, sliderVars, focused, focusEvents>>

\* the timer of hideNotification fires
RemoveTimer ==
  \E t \in Due("remove") :
    /\ Becomes(RemoveNotification(Fired(TickerState, t), t.n))
    /\ UNCHANGED <<swVars, hook, sliderVars, focused, focusEvents>>

\* the timer of a blur listener fires: this.resumeNotifications()
ResumeTimer ==
  \E t \in Due("resume") :
    /\ Becomes(resumeNotifications(Fired(TickerState, t)))
    /\ UNCHANGED <<swVars, hook, sliderVars, focused, focusEvents>>

\* The user puts the focus on a field of the form, from outside the form or
\* from another field: the field that had it gets blur, then this one gets
\* focus (detectFormFocus, script.js 378-392).
FocusField(f) ==
  /\ f # focused
  /\ focusEvents < MaxFocus
  /\ LET blurred == IF focused = NoField THEN TickerState
                    ELSE SetTimeout(TickerState, "resume", BlurDelay, 0)
     IN Becomes(pauseNotifications(blurred))
  /\ focused' = f
  /\ focusEvents' = focusEvents + 1
  /\ UNCHANGED <<swVars, hook, sliderVars>>

\* The focus leaves the form.
BlurField ==
  /\ focused # NoField
  /\ Becomes(SetTimeout(TickerState, "resume", BlurDelay, 0))
  /\ focused' = NoField
  /\ UNCHANGED <<swVars, hook, sliderVars, focusEvents>>

\* Time passes up to the next timer, a second at most.
Elapse(bag, d) ==
  LET later(t) == [t EXCEPT !.left = @ - d]
      sooner(t) == [t EXCEPT !.left = @ + d]
  IN [t \in {later(u) : u \in BagToSet(bag)} |-> bag[sooner(t)]]
NextDeadline ==
  IF BagToSet(timers) = {} THEN Quantum
  ELSE LET first == CHOOSE t \in BagToSet(timers) :
                      \A u \in BagToSet(timers) : t.left <= u.left
       IN Min(Quantum, first.left)
TickerTimePasses ==
  /\ NextDeadline > 0
  /\ timers' = Elapse(timers, NextDeadline)
  /\ socialProofSystem' =
       [socialProofSystem EXCEPT !.sinceLastNotification = Min(minInterval, @ + NextDeadline)]
  /\ sinceShown' = Min(minInterval, sinceShown + NextDeadline)
  /\ UNCHANGED <<swVars, hook, sliderVars, container, focused, focusEvents>>

TickerNext ==
  \/ ShowOnceTimer
  \/ ScheduleTimer
  \/ ShowTimer
  \/ HideTimer
  \/ RemoveTimer
  \/ ResumeTimer
  \/ \E f \in Fields : FocusField(f)
  \/ BlurField
  \/ TickerTimePasses
SpecTicker == PageInit /\ [][TickerNext]_vars

\* ------------------------------ the main slider and its autoplay timers
\* setInterval(...): an id no live interval has
NewInterval(s) ==
  CHOOSE i \in 1..(MaxGestures + 3) :
    /\ i \notin s.intervals
    /\ \A j \in 1..(MaxGestures + 3) : (j < i) => j \in s.intervals

\* startMainAutoPlay (script.js 500-506; part_000 541-551, without the test
\* of totalMainSlides)
startMainAutoPlay(s) ==
  IF s.script = "script.js" /\ s.totalMainSlides <= 1
  THEN [s EXCEPT !.lastAutoPlayCall = "start"]
  ELSE [s EXCEPT !.mainAutoPlayInterval = NewInterval(s),
                 !.intervals = @ \cup {NewInterval(s)},
                 !.lastAutoPlayCall = "start"]

\* pauseMainAutoPlay: clearInterval(mainAutoPlayInterval)
pauseMainAutoPlay(s) ==
  [s EXCEPT !.intervals = @ \ {s.mainAutoPlayInterval},
            !.lastAutoPlayCall = "pause"]

\* resetMainAutoPlay: clearInterval(mainAutoPlayInterval); startMainAutoPlay()
resetMainAutoPlay(s) == startMainAutoPlay(pauseMainAutoPlay(s))

\* changeMainSlide(direction) (script.js 470-483)
changeMainSlide(s, direction) ==
  IF s.totalMainSlides = 0 THEN s
  ELSE LET moved == s.currentMainSlide.val + direction
           wrapped == IF moved >= s.totalMainSlides THEN 0
                      ELSE IF moved < 0 THEN s.totalMainSlides - 1
                      ELSE moved
       IN resetMainAutoPlay([s EXCEPT !.currentMainSlide = Num(wrapped)])

\* goToSlide(index) (script.js 485-491)
goToSlide(s, index) ==
  IF index >= 0 /\ index < s.totalMainSlides
  THEN resetMainAutoPlay([s EXCEPT !.currentMainSlide = Num(index)])
  ELSE s

\* The callback of the interval: changeMainSlide(1) in script.js,
\* currentMainSlide = (currentMainSlide + 1) % totalMainSlides in part_000.
AutoPlayCallback(s) ==
  IF s.script = "script.js" THEN changeMainSlide(s, 1)
  ELSE [s EXCEPT !.currentMainSlide =
          JSRemainder(JSAdd(s.currentMainSlide, Num(1)), Num(s.totalMainSlides))]

\* handleTouchEnd and handleMouseUp of part_000 (449-471, 492-512)
handleTouchEnd(s, dx, dy) ==
  IF ~s.isDragging THEN s
  ELSE LET swiped == IF Abs(dx) > Abs(dy) /\ Abs(dx) > SwipeThreshold
                     THEN changeMainSlide(s, IF dx > 0 THEN -1 ELSE 1)
                     ELSE s
       IN resetMainAutoPlay([swiped EXCEPT !.isDragging = FALSE])

\* the touchend listener of the load listener (script.js 902-911):
\* diff = startX - endX
LoadTouchEnd(s, dx) ==
  LET diff == -dx
      swiped == IF Abs(diff) > SwipeThreshold
                THEN changeMainSlide(s, IF diff > 0 THEN 1 ELSE -1)
                ELSE s
  IN startMainAutoPlay(swiped)

\* DOMContentLoaded and load: initializeMainSlider counts the slides, the
\* listeners are attached, startMainAutoPlay() is called.
PageLoads(script, total) ==
  /\ slider.script = ""
  /\ slider' = startMainAutoPlay([slider EXCEPT !.script = script,
                                                !.totalMainSlides = total])
  /\ UNCHANGED <<swVars, hook, tickerVars, swipe, sliderEvents>>

\* An interval that was not cleared fires.
AutoPlayTick(i) ==
  /\ i \in slider.intervals
  /\ slider' = AutoPlayCallback(slider)
  /\ UNCHANGED <<swVars, hook, tickerVars, swipe, sliderEvents>>

\* The user presses the next or the previous arrow.
ClickArrow(direction) ==
  /\ slider.script # ""
  /\ slider.pointer \in {"away", "hovering"}
  /\ sliderEvents < MaxGestures
  /\ slider' = changeMainSlide(slider, direction)
  /\ sliderEvents' = sliderEvents + 1
  /\ UNCHANGED <<swVars, hook, tickerVars, swipe>>

\* The user presses an indicator or a thumbnail, or a caller passes any
\* other index.
ClickIndicator(index) ==
  /\ slider.script # ""
  /\ slider.pointer \in {"away", "hovering"}
  /\ sliderEvents < MaxGestures
  /\ slider' = goToSlide(slider, index)
  /\ sliderEvents' = sliderEvents + 1
  /\ UNCHANGED <<swVars, hook, tickerVars, swipe>>

\* mouseenter on .main-slider: pauseMainAutoPlay
MouseEnter ==
  /\ slider.script # ""
  /\ slider.pointer = "away"
  /\ sliderEvents < MaxGestures
  /\ slider' = [pauseMainAutoPlay(slider) EXCEPT !.pointer = "hovering"]
  /\ sliderEvents' = sliderEvents + 1
  /\ UNCHANGED <<swVars, hook, tickerVars, swipe>>

\* mousedown on .main-slider: handleMouseDown of part_000
MouseDown ==
  /\ slider.script = "part_000"
  /\ slider.pointer = "hovering"
  /\ slider' = [pauseMainAutoPlay(slider) EXCEPT !.isDragging = TRUE,
                                                  !.pointer = "pressing"]
  /\ UNCHANGED <<swVars, hook, tickerVars, swipe, sliderEvents>>

\* mouseup on .main-slider: handleMouseUp of part_000
MouseUp(dx, dy) ==
  /\ slider.pointer = "pressing"
  /\ slider' = [handleTouchEnd(slider, dx, dy) EXCEPT !.pointer = "hovering"]
  /\ UNCHANGED <<swVars, hook, tickerVars, swipe, sliderEvents>>

\* mouseleave on .main-slider: handleMouseUp of part_000 first, if a button
\* is still down, then startMainAutoPlay of the load listener
MouseLeave(dx, dy) ==
  /\ slider.pointer \in {"hovering", "pressing"}
  /\ slider.pointer = "hovering" => (dx = 0 /\ dy = 0)
  /\ LET released == IF slider.script = "part_000"
                     THEN handleTouchEnd(slider, dx, dy) ELSE slider
     IN slider' = [startMainAutoPlay(released) EXCEPT !.pointer = "away"]
  /\ UNCHANGED <<swVars, hook, tickerVars, swipe, sliderEvents>>

\* touchstart on .main-slider: handleTouchStart of part_000, then the
\* listener of the load listener; both call pauseMainAutoPlay
TouchStart ==
  /\ slider.script # ""
  /\ slider.pointer = "away"
  /\ sliderEvents < MaxGestures
  /\ slider' = [pauseMainAutoPlay(slider) EXCEPT
                  !.isDragging = (slider.script = "part_000"),
                  !.pointer = "touching"]
  /\ sliderEvents' = sliderEvents + 1
  /\ UNCHANGED <<swVars, hook, tickerVars, swipe>>

\* touchmove: handleTouchMove of part_000 gives the gesture up when it is
\* more vertical than horizontal
TouchMove(dx, dy) ==
  /\ slider.pointer = "touching"
  /\ slider.isDragging
  /\ Abs(dy) > Abs(dx)
  /\ slider' = [slider EXCEPT !.isDragging = FALSE]
  /\ UNCHANGED <<swVars, hook, tickerVars, swipe, sliderEvents>>

\* touchend: handleTouchEnd of part_000, then the listener of the load
\* listener
TouchEnd(dx, dy) ==
  /\ slider.pointer = "touching"
  /\ LET first == IF slider.script = "part_000"
                  THEN handleTouchEnd(slider, dx, dy) ELSE slider
         after == [LoadTouchEnd(first, dx) EXCEPT !.pointer = "away"]
     IN /\ slider' = after
        /\ swipe' = [dx |-> dx, dy |-> dy, from |-> slider.currentMainSlide,
                     to |-> after.currentMainSlide,
                     total |-> slider.totalMainSlides]
  /\ UNCHANGED <<swVars, hook, tickerVars, sliderEvents>>

SliderNext ==
  \/ \E script \in PageScripts : \E total \in 0..MaxSlides : PageLoads(script, total)
  \/ \E i \in 1..(MaxGestures + 3) : AutoPlayTick(i)
  \/ \E direction \in {-1, 1} : ClickArrow(direction)
  \/ \E index \in -1..MaxSlides : ClickIndicator(index)
  \/ MouseEnter
  \/ MouseDown
  \/ \E dx \in DeltaXs : \E dy \in DeltaYs : MouseUp(dx, dy)
  \/ \E dx \in DeltaXs : \E dy \in DeltaYs : MouseLeave(dx, dy)
  \/ TouchStart
  \/ \E dx \in DeltaXs : \E dy \in DeltaYs : TouchMove(dx, dy)
  \/ \E dx \in DeltaXs : \E dy \in DeltaYs : TouchEnd(dx, dy)
SpecSlider == PageInit /\ [][SliderNext]_vars

\* ------------------------------------------------------------------ claims
\* The requests the listener answers: GET over http or https.
Intercepted(r) ==
  /\ req[r].pc \notin {"idle", "ignored"}
  /\ req[r].method = "GET"

\* Some existing namespace holds an entry for the URL.
HasEntry(order, st, url) == \E n \in Range(order) : \E e \in st[n] : e.url = url

\* The classification the specification describes.
DescribedStrategy(url) ==
  IF url \in ManifestKeys \/ TestExtension(Chars(url), StaticExtensions) THEN "static"
  ELSE IF TestExtension(Chars(url), ImageExtensions) THEN "image"
  ELSE IF \E host \in {"make.com", "analytics.tiktok.com", "googleapis.com"} :
            Includes(Chars(url), Chars(host)) THEN "api"
  ELSE "html"

\* C1: every intercepted GET http(s) request gets the strategy of the first
\* matching category: static asset (manifest entry or stylesheet/script/font
\* extension), else image, else external API, else page document.
C1_Classification ==
  \A r \in Requests : Intercepted(r) => req[r].strategy = DescribedStrategy(req[r].url)

\* C2: whenever the promise given to the install event's waitUntil resolves,
\* a lookup of every manifest URL finds a response stored in the static
\* namespace.
C2_InstallCachesManifest ==
  [][ (installPromise = "pending" /\ installPromise' = "fulfilled")
      => /\ CACHE_STATIC_NAME \in Range(cacheOrder')
         /\ \A u \in ManifestKeys : \E e \in store'[CACHE_STATIC_NAME] : e.url = u ]_vars

\* C3: when a manifest fetch fails during install the installation is
\* aborted: the waitUntil promise rejects, the install handler does not call
\* skipWaiting, and the worker never starts to activate.
C3_FailedInstallAborts ==
  addAllFailed =>
    /\ installPromise = "rejected"
    /\ skipWaitingCalled => \E c \in Commands : cmd[c].type = "SKIP_WAITING"
    /\ workerState \notin {"installed", "activating", "activated"}

\* The step that completes the activate handler, and the namespaces that
\* existed when it enumerated them.
ActivationCompletes ==
  workerState \in {"installed", "activating"} /\ workerState' = "activated"
NamesBeforeActivation ==
  IF workerState = "installed" THEN Range(cacheOrder) ELSE Range(actSnapshot)
HasAppPrefix(name) == StartsWith(Chars(name), Chars("police288-"))
NamesActivationKeeps ==
  {n \in NamesBeforeActivation :
     ~HasAppPrefix(n) \/ n \in {CACHE_STATIC_NAME, CACHE_DYNAMIC_NAME}}

\* C4 (as stated): after the activate handler completes, the existing
\* namespaces are exactly those that existed before activation minus every
\* 'police288-' namespace other than the current static and dynamic ones.
C4_ActivateExactly ==
  [][ ActivationCompletes => Range(cacheOrder') = NamesActivationKeeps ]_vars

\* C4 (amended): the same, provided no CLEAR_CACHE or UPDATE_CACHE command
\* changed the set of namespaces while the activate handler was running.
C4_ActivateExactlyUndisturbed ==
  [][ (ActivationCompletes /\ ~actInterfered)
      => Range(cacheOrder') = NamesActivationKeeps ]_vars

\* C4 witness: an upgrade from v2.0.0 was activated with no command sent: both
\* v2.0.0 namespaces are gone, the foreign namespace and the current ones exist.
C4_Witness ==
  /\ workerState = "activated"
  /\ \A c \in Commands : cmd[c].pc = "idle"
  /\ Range(cacheOrder) = {ForeignName, CACHE_STATIC_NAME, CACHE_DYNAMIC_NAME}

\* C5: an intercepted GET for a URL with an image extension whose network
\* fetch failed and that was not answered from a cache is answered with the
\* placeholder image.
C5_ImagePlaceholder ==
  \A r \in Requests :
    ( /\ Intercepted(r) /\ req[r].pc = "done"
      /\ TestExtension(Chars(req[r].url), ImageExtensions)
      /\ req[r].net = "throw"
      /\ req[r].result.kind # "response" )
    => req[r].result = Placeholder

\* C6: an intercepted GET to an external API URL always goes to the network,
\* its response is never written to a namespace and never comes from one.
C6_APINetworkOnly ==
  \A r \in Requests :
    ( /\ Intercepted(r)
      /\ \E host \in {"make.com", "analytics.tiktok.com", "googleapis.com"} :
           Includes(Chars(req[r].url), Chars(host)) )
    => /\ req[r].put = "none"
       /\ \A n \in CacheNames : \A e \in store[n] : e.url # req[r].url
       /\ req[r].pc = "done" => req[r].net # "none"

\* C7: when a page-document request is answered with a successful network
\* response, the dynamic namespace already holds that response under the
\* request's URL.
C7_PageStoredBeforeReturn ==
  [][ \A r \in Requests :
        ( /\ Intercepted(r) /\ req[r].pc # "done" /\ req'[r].pc = "done"
          /\ DescribedStrategy(req[r].url) = "html"
          /\ req'[r].net = "ok" )
        => /\ CACHE_DYNAMIC_NAME \in Range(cacheOrder')
           /\ [url |-> req[r].url, body |-> req'[r].result.body]
                \in store'[CACHE_DYNAMIC_NAME] ]_vars

\* C8: a static-asset request that finds a cached entry is answered with that
\* entry, without a network fetch and without a change to any namespace.
C8_CacheFirstHit ==
  [][ \A r \in Requests :
        ( /\ req[r].strategy = "static" /\ req[r].pc = "match"
          /\ req'[r] # req[r]
          /\ HasEntry(cacheOrder, store, req[r].url) )
        => /\ req'[r].pc = "done"
           /\ req'[r].result.kind = "response"
           /\ \E n \in Range(cacheOrder) :
                [url |-> req[r].url, body |-> req'[r].result.body] \in store[n]
           /\ req'[r].net = "none"
           /\ req'[r].put = "none"
           /\ cacheOrder' = cacheOrder /\ store' = store ]_vars

\* C8 witness: the second request was answered with the entry the first one
\* stored, and made no fetch.
C8_Witness ==
  \E q, r \in Requests :
    /\ q # r
    /\ req[r].strategy = "static" /\ req[r].pc = "done"
    /\ req[r].lookup = "hit" /\ req[r].net = "none"
    /\ req[r].result = Response(<<"req", q>>, TRUE)

\* C9: handleStaticAsset stores a response only in the static namespace, only
\* after its lookup missed and only when the response is successful; an
\* unsuccessful response is returned as it is and never stored.
C9_StoreOnlySuccessful ==
  \A r \in Requests :
    req[r].strategy = "static" =>
      /\ req[r].put # "none" =>
           req[r].lookup = "miss" /\ req[r].net = "ok" /\ req[r].putName = CACHE_STATIC_NAME
      /\ \A n \in CacheNames : \A e \in store[n] :
           e.body = <<"req", r>> =>
             /\ n = CACHE_STATIC_NAME
             /\ e.url = req[r].url
             /\ req[r].lookup = "miss" /\ req[r].net = "ok"
      /\ (req[r].pc = "done" /\ req[r].net = "notok") =>
           req[r].result = Response(<<"req", r>>, FALSE) /\ req[r].put = "none"

\* C9 witness: one request's successful response is stored in the static
\* namespace, another's unsuccessful response was returned and is not stored.
C9_Witness ==
  \E r, q \in Requests :
    /\ req[r].strategy = "static" /\ req[r].put = "done"
    /\ [url |-> req[r].url, body |-> <<"req", r>>] \in store[CACHE_STATIC_NAME]
    /\ req[q].strategy = "static" /\ req[q].pc = "done" /\ req[q].net = "notok"
    /\ req[q].result = Response(<<"req", q>>, FALSE)

\* C10: a static-asset request whose fetch threw and for which no namespace
\* holds an entry ends in a failure (the handler gives respondWith no
\* response), never in a successful response.
C10_StaticFailurePropagates ==
  [][ \A r \in Requests :
        ( /\ req[r].strategy = "static" /\ req[r].pc = "catch"
          /\ req'[r].pc = "done"
          /\ ~HasEntry(cacheOrder, store, req[r].url) )
        => /\ req'[r].net = "throw"
           /\ req'[r].result.kind \in {"undefined", "rejected"}
           /\ ~req'[r].result.ok ]_vars

\* C10 witness: a static-asset request missed the cache, its fetch threw, and
\* it ended without a response.
C10_Witness ==
  \E r \in Requests :
    /\ req[r].strategy = "static" /\ req[r].pc = "done"
    /\ req[r].lookup = "miss" /\ req[r].net = "throw"
    /\ req[r].result = Undefined

\* C11: when the network fetch of a page-document request fails, the request
\* is answered with the cached copy of its URL if a namespace holds one, and
\* otherwise with the fallback document /index.html.
C11_PageFallback ==
  [][ \A r \in Requests :
        ( /\ Intercepted(r) /\ req[r].pc # "done" /\ req'[r].pc = "done"
          /\ DescribedStrategy(req[r].url) = "html"
          /\ req'[r].net = "throw" )
        => req'[r].result =
             IF HasEntry(cacheOrder, store, req[r].url)
             THEN CachesMatch(cacheOrder, store, req[r].url)
             ELSE CachesMatch(cacheOrder, store, RequestURL("/index.html")) ]_vars

\* The entries a namespace holds for a URL.
EntriesFor(name, url) == {e \in store[name] : e.url = url}

\* The manifest was stored at least once: by install, or by an UPDATE_CACHE
\* command that replied.
ManifestPopulated ==
  \/ installPc = "settled" /\ ~addAllFailed
  \/ \E c \in Commands : cmd[c].type = "UPDATE_CACHE" /\ cmd[c].replies > 0

\* C12: populating the static namespace from the manifest is idempotent: the
\* static namespace never holds two entries for a manifest URL, and after
\* install and any number of UPDATE_CACHE commands (no CLEAR_CACHE sent), once
\* a population succeeded it holds exactly one entry for every manifest URL.
C12_PopulateIdempotent ==
  /\ \A u \in ManifestKeys : Cardinality(EntriesFor(CACHE_STATIC_NAME, u)) <= 1
  /\ ( /\ ManifestPopulated
       /\ \A c \in Commands : cmd[c].type # "CLEAR_CACHE" )
     => /\ CACHE_STATIC_NAME \in Range(cacheOrder)
        /\ \A u \in ManifestKeys : Cardinality(EntriesFor(CACHE_STATIC_NAME, u)) = 1

\* C12 witness: install stored the manifest, an UPDATE_CACHE command stored it
\* again, and the static namespace holds the command's entries and no others.
C12_Witness ==
  \E c \in Commands :
    /\ installPc = "settled" /\ ~addAllFailed
    /\ cmd[c].type = "UPDATE_CACHE" /\ cmd[c].replies = 1
    /\ store[CACHE_STATIC_NAME] = {[url |-> u, body |-> <<"update", c>>] : u \in ManifestKeys}

\* The URL's scheme is http or https.
HttpScheme(url) ==
  Protocol(Chars(url)) \in {<<"h", "t", "t", "p", ":">>, <<"h", "t", "t", "p", "s", ":">>}

\* C13: for a request whose method is not GET or whose scheme is not http(s)
\* the listener never calls respondWith (no handler runs: no lookup, no
\* fetch, no result, no put) and its dispatch changes no namespace.
C13_IgnoredUntouched ==
  [][ \A r \in Requests :
        ( /\ req'[r].pc # "idle"
          /\ req'[r].method # "GET" \/ ~HttpScheme(req'[r].url) )
        => /\ req'[r].pc = "ignored"
           /\ req'[r].lookup = "none" /\ req'[r].net = "none"
           /\ req'[r].put = "none" /\ req'[r].result = NoResponse
           /\ \A n \in CacheNames : \A e \in store'[n] : e.body # <<"req", r>>
           /\ req'[r] # req[r] => cacheOrder' = cacheOrder /\ store' = store ]_vars

\* C13 witness: a POST and a GET of a browser-extension URL were dispatched
\* and both were left to the browser.
C13_Witness ==
  \E q, r \in Requests :
    /\ req[q].pc = "ignored" /\ req[q].method = "POST"
    /\ req[r].pc = "ignored" /\ req[r].method = "GET" /\ req[r].url = ExtensionScript

\* C14: a CLEAR_CACHE or UPDATE_CACHE command is answered with {success: true}
\* at most once, by the step that completes its operation and not before:
\* for CLEAR_CACHE the deletions it was waiting for are done, for UPDATE_CACHE
\* every manifest URL was added again; an operation that completed is answered
\* exactly once.
C14_ReplyAfterCompletion ==
  [][ \A c \in Commands :
        /\ cmd'[c].replies <= 1
        /\ cmd'[c].replies > 0 =>
             cmd'[c].pc = "done" /\ cmd'[c].type \in {"CLEAR_CACHE", "UPDATE_CACHE"}
        /\ (cmd'[c].type = "CLEAR_CACHE" /\ cmd'[c].pc = "done") => cmd'[c].replies = 1
        /\ ( /\ cmd[c].type = "UPDATE_CACHE" /\ cmd[c].pc = "addAll" /\ cmd'[c].pc = "done"
             /\ store' # store )
           => cmd'[c].replies = 1
        /\ cmd'[c].replies > cmd[c].replies =>
             IF cmd[c].type = "CLEAR_CACHE"
             THEN /\ cmd[c].pc \in {"keys", "deleting"}
                  /\ cmd[c].pc = "keys" => cacheOrder = <<>>
                  /\ cmd'[c].pending = {}
                  /\ \A n \in cmd[c].pending : n \notin Range(cacheOrder')
             ELSE /\ cmd[c].pc = "addAll"
                  /\ cmd[c].handle = "live" =>
                       \A u \in ManifestKeys :
                         [url |-> u, body |-> <<"update", c>>] \in store'[CACHE_STATIC_NAME]
    ]_vars

\* C14 witness: a CLEAR_CACHE command sent after install had created the
\* namespaces was answered once, and none is left.
C14_Witness ==
  \E c \in Commands :
    /\ cmd[c].type = "CLEAR_CACHE" /\ cmd[c].pc = "done" /\ cmd[c].replies = 1
    /\ installPc = "settled"
    /\ cacheOrder = <<>>

\* The step that posts the reply to a CLEAR_CACHE command.
ClearReplies(c) ==
  cmd[c].type = "CLEAR_CACHE" /\ cmd'[c].replies > cmd[c].replies

\* C15 (as stated): at the moment the reply to CLEAR_CACHE is posted no cache
\* namespace exists, whatever fetch handlers run meanwhile.
C15_ClearLeavesNothing ==
  [][ \A c \in Commands : ClearReplies(c) => cacheOrder' = <<>> ]_vars

\* C15 (amended): at the moment the reply to CLEAR_CACHE is posted, the only
\* namespaces that exist are ones a concurrently running handler created with
\* caches.open after clearAllCaches enumerated the namespaces; with no such
\* caches.open, none exists.
C15_ClearLeavesOnlyReopened ==
  [][ \A c \in Commands :
        ClearReplies(c) => Range(cacheOrder') \subseteq cmd[c].reopened ]_vars

\* C15 witness: a CLEAR_CACHE command ran while a fetch handler's put was
\* under way (the put was lost with its namespace), the reply was posted and
\* no namespace exists.
C15_Witness ==
  \E c \in Commands, r \in Requests :
    /\ cmd[c].type = "CLEAR_CACHE" /\ cmd[c].replies = 1
    /\ req[r].put = "lost"
    /\ cacheOrder = <<>>

\* C16: in every reachable state no URL has an entry in both the static and
\* the dynamic namespace.
C16_OneNamespacePerURL ==
  \A u \in AbsoluteURLs :
    EntriesFor(CACHE_STATIC_NAME, u) = {} \/ EntriesFor(CACHE_DYNAMIC_NAME, u) = {}

\* C16 witness: after install, activation, an UPDATE_CACHE command and fetch
\* handling, the static namespace holds the manifest and the stored response
\* of an image or page request, and the dynamic namespace exists and is empty.
C16_Witness ==
  \E r \in Requests, c \in Commands :
    /\ cmd[c].type = "UPDATE_CACHE" /\ cmd[c].replies = 1
    /\ req[r].put = "done"
    /\ DescribedStrategy(req[r].url) \in {"image", "html"}
    /\ [url |-> req[r].url, body |-> <<"req", r>>] \in store[CACHE_STATIC_NAME]
    /\ \A u \in ManifestKeys : EntriesFor(CACHE_STATIC_NAME, u) # {}
    /\ CACHE_DYNAMIC_NAME \in Range(cacheOrder)
    /\ store[CACHE_DYNAMIC_NAME] = {}

\* C17: the worker has claimed the open pages only when every deletion the
\* activate handler started has completed (no stale 'police288-' namespace is
\* left, none is waited for), and activation is complete only then.
C17_ClaimAfterDeletions ==
  /\ clientsClaimed =>
       /\ workerState = "activated"
       /\ actPending = {}
       /\ \A n \in Range(cacheOrder) :
            HasAppPrefix(n) => n \in {CACHE_STATIC_NAME, CACHE_DYNAMIC_NAME}
  /\ workerState = "activated" => clientsClaimed

\* C17 witness: an upgrade from v2.0.0 was activated and the pages claimed;
\* the v2.0.0 namespaces and their entries are gone, the foreign one is kept.
C17_Witness ==
  /\ clientsClaimed
  /\ ForeignName \in Range(cacheOrder)
  /\ OldStaticName \notin Range(cacheOrder) /\ store[OldStaticName] = {}
  /\ OldDynamicName \notin Range(cacheOrder)

\* The handlers that looked the URL up while no namespace held it.
MissedLookups(url) ==
  {r \in Requests : Intercepted(r) /\ req[r].url = url /\ req[r].lookup = "miss"}

\* Every entry any namespace holds for the URL.
AllEntriesFor(url) ==
  {p \in CacheNames \X UNION {store[m] : m \in CacheNames} :
     p[2] \in store[p[1]] /\ p[2].url = url}

\* C18: when two or more requests for the same uncached URL were handled
\* concurrently (each missed the cache) and fetched successful responses,
\* then once their handlers and cache writes are finished the cache holds
\* exactly one entry for the URL, it is the response one of them fetched, and
\* each of them was answered with the response it fetched.
C18_ConcurrentSameURL ==
  \A u \in AbsoluteURLs :
    ( /\ Cardinality(MissedLookups(u)) >= 2
      /\ \A r \in MissedLookups(u) :
           req[r].pc = "done" /\ req[r].net = "ok" /\ req[r].put = "done" )
    => /\ Cardinality(AllEntriesFor(u)) = 1
       /\ \A p \in AllEntriesFor(u) : \E r \in MissedLookups(u) : p[2].body = <<"req", r>>
       /\ \A r \in MissedLookups(u) : req[r].result = Response(<<"req", r>>, TRUE)

\* C18 witness: two requests for the same URL both missed the cache, both
\* fetched and stored a successful response, and the static namespace holds
\* the second one's alone.
C18_Witness ==
  \E q, r \in Requests :
    /\ q < r /\ req[q].url = req[r].url
    /\ req[q].lookup = "miss" /\ req[q].net = "ok" /\ req[q].put = "done"
    /\ req[r].lookup = "miss" /\ req[r].net = "ok" /\ req[r].put = "done"
    /\ EntriesFor(CACHE_STATIC_NAME, req[r].url) = {[url |-> req[r].url, body |-> <<"req", r>>]}

\* C19: a request during whose handling a cache lookup, open or write threw
\* is handled as after a cache miss: it went to the network, and a successful
\* network response is what the page was answered with.
C19_CacheFailureIsMiss ==
  \A r \in Requests :
    (Intercepted(r) /\ req[r].pc = "done" /\ req[r].fault # "none")
    => /\ req[r].net # "none"
       /\ req[r].net = "ok" => req[r].result = Response(<<"req", r>>, TRUE)

\* C20: a submission that fails with a network error or an unsuccessful
\* status is retried twice, each retry after a 2-second wait, before
\* {success: false} is reported: three attempts were made by then, never
\* more; an attempt never lasts longer than 10 seconds.
C20_RetriedTwice ==
  \A s \in Submissions :
    /\ hook[s].attempts <= maxRetries + 1
    /\ hook[s].attempts = IF hook[s].pc = "idle" THEN 0 ELSE hook[s].retryCount + 1
    /\ hook[s].elapsed <= timeout /\ hook[s].waited <= RetryDelay
    /\ ( /\ hook[s].pc = "done" /\ hook[s].result = "failure"
         /\ hook[s].errorName \in {"Error", "TypeError"} )
       => hook[s].attempts = maxRetries + 1

\* C21: notifications are stopped while the user is in the order form: while
\* a field of #orderForm has focus isActive is false and no notification is
\* added to the page, whatever focus and blur events came before, moves of
\* the focus from one field to another included.
C21_StoppedWhileFocused ==
  [][(focused' # NoField)
     => /\ ~socialProofSystem'.isActive
        /\ container' \subseteq container]_vars

\* C22: notificationQueue never holds more than maxNotifications (1)
\* notification, and no more than that many notifications are in the page,
\* whatever the order of the timers and of the pause and resume events.
C22_AtMostOneNotification ==
  /\ Len(socialProofSystem.notificationQueue) <= maxNotifications
  /\ Cardinality(container) <= maxNotifications
\* A scheduler's timer is due while a notification is displayed and the
\* ticker is active: showNotification is about to be called with a full queue.
C22_Witness ==
  /\ socialProofSystem.isActive
  /\ Len(socialProofSystem.notificationQueue) = maxNotifications
  /\ Due("show") # {}

\* C23: two successive notifications are never displayed less than
\* minInterval (8 seconds) apart: when a notification is added to the page,
\* at least minInterval has passed since the one before was displayed.
C23_MinIntervalApart ==
  [][(container' \ container # {}) => (sinceShown >= minInterval)]_vars

\* The timers that carry a scheduling chain on: those whose callback calls
\* scheduleNextNotification, and the showNotification timer it sets.
SchedulingTimers ==
  BagCardinality([t \in {u \in BagToSet(timers) : u.kind \in {"schedule", "show"}}
                    |-> timers[t]])

\* C24: at most one scheduling chain is pending at any time: at most one
\* outstanding timer will call scheduleNextNotification or the scheduled
\* showNotification, however many pause/resume cycles there were.
C24_OneSchedulingChain == SchedulingTimers <= 1

\* C25: at most one autoplay interval of the slider is live at any time: once
\* startMainAutoPlay made a newer interval no earlier one keeps firing, and
\* after pauseMainAutoPlay none fires.
C25_OneAutoPlayInterval ==
  /\ Cardinality(slider.intervals) <= 1
  /\ slider.lastAutoPlayCall = "pause" => slider.intervals = {}

\* C26: currentMainSlide is an integer with
\* 0 <= currentMainSlide < max(1, totalMainSlides) after any sequence of
\* arrow clicks, goToSlide calls, swipes and autoplay ticks, also on a page
\* with no slide or one slide.
C26_SlideIndexInRange ==
  /\ ~slider.currentMainSlide.nan
  /\ slider.currentMainSlide.val >= 0
  /\ slider.currentMainSlide.val <
       (IF slider.totalMainSlides > 1 THEN slider.totalMainSlides ELSE 1)

\* The slide next to index in the direction of a swipe over dx pixels: the
\* next one when the finger moved left, the previous one when it moved right.
SlideAfterSwipe(index, dx, total) ==
  IF total = 0 THEN index
  ELSE Num((index.val + (IF dx < 0 THEN 1 ELSE -1) + total) % total)

\* C27: one swipe of more than 50 px, more horizontal than vertical, moves
\* the slider by exactly one slide in the swipe's direction; a swipe of 50
\* px or less leaves currentMainSlide as it was.
C27_SwipeMovesOneSlide ==
  (swipe # NoSwipe) =>
    /\ (Abs(swipe.dx) > SwipeThreshold /\ Abs(swipe.dx) > Abs(swipe.dy))
       => swipe.to = SlideAfterSwipe(swipe.from, swipe.dx, swipe.total)
    /\ (Abs(swipe.dx) <= SwipeThreshold) => swipe.to = swipe.from

\* C28: sendToMakeWebhook never rejects and always terminates: whatever the
\* fetch does, every submission that was sent eventually gets
\* {success: true} or {success: false}, and hideLoading is then called.
C28_SubmissionSettles ==
  \A s \in Submissions :
    (hook[s].pc # "idle")
      ~> (/\ hook[s].pc = "done"
          /\ hook[s].result \in {"success", "failure"}
          /\ hook[s].hideLoadingCalled)

\* C29: every CLEAR_CACHE or UPDATE_CACHE command eventually receives a
\* reply on its port, also when the operation behind it fails.
C29_CommandReplied ==
  \A c \in Commands :
    (cmd[c].type \in {"CLEAR_CACHE", "UPDATE_CACHE"}) ~> (cmd[c].replies > 0)
====
